---- MODULE Spec2Model ----
(***************************************************************************)
(* Model of the Firestore client for Google Apps Script:                   *)
(*   - Transaction (Transaction.ts): the Inactive/Active state machine,    *)
(*     pinned reads, staged writes, commit and rollback;                   *)
(*   - Firestore.runTransaction / isRetryableError (Firestore.ts): the     *)
(*     retry-with-backoff driver;                                          *)
(*   - WriteBatch (WriteBatch.ts) and Firestore.batchWrite: staged writes, *)
(*     field transforms, the non-atomic commit and its status list;        *)
(*   - the operator check of Query.filter_ (Query.ts).                     *)
(* Strings are sequences of one-character strings so that toLowerCase,     *)
(* includes and replace are computed character by character.               *)
(***************************************************************************)
EXTENDS Integers, Sequences, FiniteSets, TLC

VARIABLES
  tx,           \* the Transaction instance: isActive, transactionId, writes
  lastCall,     \* the last method call on tx: op, error raised, RPCs issued
  utilities,    \* the host's Utilities service: how strict base64Decode is
  pc,           \* position of runTransaction (or "idle" / "classify")
  maxRetries,   \* runTransaction's maxRetries argument
  runOptions,   \* runTransaction's options argument
  attempt,      \* runTransaction's loop counter
  lastError,    \* runTransaction's lastError local
  caught,       \* the error caught by the current attempt's catch block
  result,       \* the value returned by updateFunction in this attempt
  outcome,      \* how runTransaction ended: returned value or thrown error
  hist,         \* what the run did so far: calls, RPCs, sleeps
  att,          \* what the current attempt did so far
  errMsg,       \* the message handed to isRetryableError
  retryable,    \* the answer of isRetryableError for errMsg
  wb,           \* the WriteBatch instance: its pending writes
  wbCall,       \* the last call on wb or of Firestore.batchWrite
  wbHist,       \* what happened to the writes staged on wb so far
  q,            \* the Query instance: from, where, offset, limit, startAt, endAt
  qCall,        \* the last call on q or of Query.createFilter
  qHist,        \* the calls made on q so far
  aq,           \* the AggregateQuery instance: its aggregations
  aqCall,       \* the last call on aq: error raised, value returned, callbacks made
  codec         \* a native value, its wire Value once wrapped, the value unwrapped from it

txVars  == <<tx, lastCall, utilities>>
runVars == <<pc, maxRetries, runOptions, attempt, lastError, caught, result, outcome, hist, att>>
clsVars == <<errMsg, retryable>>
wbVars  == <<wb, wbCall, wbHist>>
qVars   == <<q, qCall, qHist>>
aqVars  == <<aq, aqCall>>
vars    == <<tx, lastCall, utilities, pc, maxRetries, runOptions, attempt, lastError, caught, result,
             outcome, hist, att, errMsg, retryable, wb, wbCall, wbHist, q, qCall, qHist,
             aq, aqCall, codec>>

----------------------------------------------------------------------------
(* Bounds of the model *)

MaxWrites   == 2    \* pending writes staged on one manually driven Transaction
MaxFnOps    == 2    \* Transaction calls made by one invocation of updateFunction
MaxRetryArg == 3    \* largest explicit maxRetries argument (the default is also run)
MaxFragments == 3   \* fragments concatenated into a message for isRetryableError

(* Program constants *)

DefaultMaxRetries == 5
BaseDelayMs == 1000
MaxDelayMs  == 10000

----------------------------------------------------------------------------
(* Optional values: undefined is the empty tuple, a defined value v is <<v>> *)

(* The backtick character (the lexer does not accept it inside a string) *)
BT == "<backtick>"

Undefined == <<>>
Def(v)    == <<v>>
IsDef(o)  == o # <<>>

Min(a, b) == IF a <= b THEN a ELSE b

----------------------------------------------------------------------------
(* Error messages of the source, as character sequences *)

MsgNotActive ==
  <<"T", "r", "a", "n", "s", "a", "c", "t", "i", "o", "n", " ", "i", "s", " ",
    "n", "o", "t", " ", "a", "c", "t", "i", "v", "e">>

MsgAlreadyActive ==
  <<"T", "r", "a", "n", "s", "a", "c", "t", "i", "o", "n", " ", "i", "s", " ",
    "a", "l", "r", "e", "a", "d", "y", " ", "a", "c", "t", "i", "v", "e">>

MsgDocIdRequired ==
  <<"D", "o", "c", "u", "m", "e", "n", "t", " ", "I", "D", " ", "i", "s", " ",
    "r", "e", "q", "u", "i", "r", "e", "d", " ", "f", "o", "r", " ",
    "t", "r", "a", "n", "s", "a", "c", "t", "i", "o", "n", " ",
    "c", "r", "e", "a", "t", "e", " ", "o", "p", "e", "r", "a", "t", "i", "o", "n", "s">>

MsgMaskType ==
  <<"M", "a", "s", "k", " ", "m", "u", "s", "t", " ", "b", "e", " ", "a", " ",
    "b", "o", "o", "l", "e", "a", "n", " ", "o", "r", " ", "a", "n", " ",
    "a", "r", "r", "a", "y", " ", "o", "f", " ", "s", "t", "r", "i", "n", "g", "s", "!">>

MsgMaskEmpty ==
  <<"M", "i", "s", "s", "i", "n", "g", " ", "f", "i", "e", "l", "d", "s", " ",
    "i", "n", " ", "M", "a", "s", "k", "!">>

MsgNoFields ==
  <<"N", "o", " ", "d", "o", "c", "u", "m", "e", "n", "t", " ", "w", "i", "t", "h", " ",
    BT, "f", "i", "e", "l", "d", "s", BT, " ", "f", "o", "u", "n", "d", " ",
    "a", "t", " ", "p", "a", "t", "h", " ">>

MsgMaxRetries ==
  <<"T", "r", "a", "n", "s", "a", "c", "t", "i", "o", "n", " ", "f", "a", "i", "l", "e", "d", " ",
    "a", "f", "t", "e", "r", " ", "m", "a", "x", "i", "m", "u", "m", " ",
    "r", "e", "t", "r", "i", "e", "s">>

(* Messages the remote service or the user function may raise *)

MsgAborted  == <<"A", "B", "O", "R", "T", "E", "D">>
MsgNotFound == <<"n", "o", "t", " ", "f", "o", "u", "n", "d">>

(* An error object: its message and the call that raised it *)
NoErr       == <<>>
Err(m, at)  == <<[msg |-> m, at |-> at]>>
Raised(e)   == e # <<>>

----------------------------------------------------------------------------
(* String helpers *)

RECURSIVE ReplaceChar(_, _, _)
ReplaceChar(s, c, r) ==
  IF s = <<>> THEN <<>>
  ELSE (IF Head(s) = c THEN r ELSE <<Head(s)>>) \o ReplaceChar(Tail(s), c, r)

(* The characters of the class \s of a regular expression: space, tab,     *)
(* line feed, carriage return, form feed, vertical tab, U+00A0, U+1680,    *)
(* U+2000 to U+200A, U+2028, U+2029, U+202F, U+205F, U+3000 and U+FEFF.    *)
(* A character the lexer does not accept inside a string is written by its *)
(* name, <U+hhhh>, as one character.                                       *)
Whitespace ==
  { " ", "\t", "\n", "\r", "\f", "<U+000B>", " ", " ", "<U+2000>",
    "<U+2001>", "<U+2002>", "<U+2003>", "<U+2004>", "<U+2005>", "<U+2006>",
    "<U+2007>", "<U+2008>", "<U+2009>", "<U+200A>", "<U+2028>", "<U+2029>",
    "<U+202F>", "<U+205F>", "<U+3000>", "﻿" }
IsSpace(c) == c \in Whitespace
NotSpace(c) == c \notin Whitespace
StripWhitespace(s) == SelectSeq(s, NotSpace)

RECURSIVE SplitOn(_, _, _)
(* s.split(sep): cur is the segment being read *)
SplitOn(s, sep, cur) ==
  IF s = <<>> THEN <<cur>>
  ELSE IF Head(s) = sep THEN <<cur>> \o SplitOn(Tail(s), sep, <<>>)
  ELSE SplitOn(Tail(s), sep, Append(cur, Head(s)))

RECURSIVE JoinWith(_, _)
JoinWith(segs, sep) ==
  IF segs = <<>> THEN <<>>
  ELSE IF Len(segs) = 1 THEN Head(segs)
  ELSE Head(segs) \o <<sep>> \o JoinWith(Tail(segs), sep)

NonEmpty(x) == x # <<>>

----------------------------------------------------------------------------
(* Paths.  Util_ is not part of the available source: cleanPath and        *)
(* getDocumentFromPath follow their use by Transaction and WriteBatch.     *)

BasePath == <<"b", "/">>

cleanPath(path) == JoinWith(SelectSeq(SplitOn(path, "/", <<>>), NonEmpty), "/")

getDocumentFromPath(path) ==
  LET segs == SelectSeq(SplitOn(path, "/", <<>>), NonEmpty)
      n    == Len(segs)
  IN  IF n = 0 THEN << <<>>, <<>> >>
      ELSE IF n % 2 = 1 THEN << JoinWith(segs, "/"), <<>> >>
      ELSE << JoinWith(SubSeq(segs, 1, n - 1), "/"), segs[n] >>

StripTrailingSlash(s) ==
  IF s # <<>> /\ s[Len(s)] = "/" THEN SubSeq(s, 1, Len(s) - 1) ELSE s

StripLeadingSlash(s) ==
  IF s # <<>> /\ Head(s) = "/" THEN Tail(s) ELSE s

getFullDocumentPath(path) ==
  StripTrailingSlash(BasePath) \o <<"/">> \o StripLeadingSlash(cleanPath(path))

(* field.replace(/BT/g, '\\BT') wrapped in backticks *)
EscapeField(field) == <<BT>> \o ReplaceChar(field, BT, <<"\\", BT>>) \o <<BT>>

RECURSIVE EscapeFields(_)
EscapeFields(fs) ==
  IF fs = <<>> THEN <<>> ELSE <<EscapeField(Head(fs))>> \o EscapeFields(Tail(fs))

----------------------------------------------------------------------------
(* The transaction token: begin() strips whitespace, decodes the base64    *)
(* token and re-encodes it web-safe; when decoding raises it falls back to *)
(* replacing the characters by hand, which also drops the padding.         *)
(* Utilities is a service of the host; it encodes with padding.            *)

(* the characters of base64 in the order of their values 0 to 63 *)
Base64Alphabet ==
  << "A", "B", "C", "D", "E", "F", "G", "H", "I", "J", "K", "L", "M", "N",
     "O", "P", "Q", "R", "S", "T", "U", "V", "W", "X", "Y", "Z", "a", "b",
     "c", "d", "e", "f", "g", "h", "i", "j", "k", "l", "m", "n", "o", "p",
     "q", "r", "s", "t", "u", "v", "w", "x", "y", "z", "0", "1", "2", "3",
     "4", "5", "6", "7", "8", "9", "+", "/" >>

(* the same with - and _ for the values 62 and 63 *)
WebSafeAlphabet ==
  << "A", "B", "C", "D", "E", "F", "G", "H", "I", "J", "K", "L", "M", "N",
     "O", "P", "Q", "R", "S", "T", "U", "V", "W", "X", "Y", "Z", "a", "b",
     "c", "d", "e", "f", "g", "h", "i", "j", "k", "l", "m", "n", "o", "p",
     "q", "r", "s", "t", "u", "v", "w", "x", "y", "z", "0", "1", "2", "3",
     "4", "5", "6", "7", "8", "9", "-", "_" >>

IsBase64Char(c) == \E i \in 1..Len(Base64Alphabet) : Base64Alphabet[i] = c

Base64Value(c) == (CHOOSE i \in 1..Len(Base64Alphabet) : Base64Alphabet[i] = c) - 1

(* the bytes that the 6-bit values v stand for; a last group of two or     *)
(* three values gives one or two bytes and its unused low bits are dropped *)
RECURSIVE DecodeUnits(_)
DecodeUnits(v) ==
  IF Len(v) < 2 THEN <<>>
  ELSE IF Len(v) = 2 THEN << v[1] * 4 + v[2] \div 16 >>
  ELSE IF Len(v) = 3
  THEN << v[1] * 4 + v[2] \div 16, (v[2] % 16) * 16 + v[3] \div 4 >>
  ELSE << v[1] * 4 + v[2] \div 16, (v[2] % 16) * 16 + v[3] \div 4, (v[3] % 4) * 64 + v[4] >>
         \o DecodeUnits(SubSeq(v, 5, Len(v)))

(* Utilities is a service of the host, and the repository does not say    *)
(* which texts its base64Decode accepts.  A strict host accepts canonical  *)
(* base64 only: padded to a multiple of four, the unused bits of the last  *)
(* character zero.  A lenient host also accepts a text without its padding *)
(* and ignores the unused bits.                                            *)
Hosts == {"strict", "lenient"}

(* Utilities.base64Decode(s): the bytes, or Undefined when it raises. On   *)
(* every host it raises on a character outside the alphabet, on a last     *)
(* group of one character, and on padding that is not exactly the = or ==  *)
(* completing the last group at the end of the text.                       *)
base64Decode(s, host) ==
  LET pads == {i \in 1..Len(s) : s[i] = "="}
      stop == IF pads = {} THEN Len(s) + 1 ELSE CHOOSE i \in pads : \A j \in pads : i <= j
      data == SubSeq(s, 1, stop - 1)
      tail == SubSeq(s, stop, Len(s))
      last == Len(data) % 4
      unused == IF last = 2 THEN Base64Value(data[Len(data)]) % 16
                ELSE IF last = 3 THEN Base64Value(data[Len(data)]) % 4
                ELSE 0
  IN  IF \E i \in 1..Len(data) : ~IsBase64Char(data[i]) THEN Undefined
      ELSE IF last = 1 THEN Undefined
      ELSE IF tail # <<>> /\ ~(last = 2 /\ tail = <<"=", "=">>) /\ ~(last = 3 /\ tail = <<"=">>)
      THEN Undefined
      ELSE IF host = "strict" /\ (Len(s) % 4 # 0 \/ unused # 0) THEN Undefined
      ELSE Def(DecodeUnits([i \in 1..Len(data) |-> Base64Value(data[i])]))

(* Utilities.base64EncodeWebSafe(bytes): padded to a multiple of four *)
RECURSIVE base64EncodeWebSafe(_)
base64EncodeWebSafe(b) ==
  IF b = <<>> THEN <<>>
  ELSE IF Len(b) = 1
  THEN << WebSafeAlphabet[b[1] \div 4 + 1], WebSafeAlphabet[(b[1] % 4) * 16 + 1], "=", "=" >>
  ELSE IF Len(b) = 2
  THEN << WebSafeAlphabet[b[1] \div 4 + 1],
          WebSafeAlphabet[(b[1] % 4) * 16 + b[2] \div 16 + 1],
          WebSafeAlphabet[(b[2] % 16) * 4 + 1], "=" >>
  ELSE << WebSafeAlphabet[b[1] \div 4 + 1],
          WebSafeAlphabet[(b[1] % 4) * 16 + b[2] \div 16 + 1],
          WebSafeAlphabet[(b[2] % 16) * 4 + b[3] \div 64 + 1],
          WebSafeAlphabet[(b[3] % 64) + 1] >>
         \o base64EncodeWebSafe(SubSeq(b, 4, Len(b)))

(* the fallback of the catch block: + and / replaced, every = removed *)
WebSafe(s) == ReplaceChar(ReplaceChar(ReplaceChar(s, "+", <<"-">>), "/", <<"_">>), "=", <<>>)

NormalizeToken(raw, host) ==
  LET cleanTransaction == StripWhitespace(raw)
      decoded == base64Decode(cleanTransaction, host)
  IN  IF IsDef(decoded) THEN base64EncodeWebSafe(decoded[1]) ELSE WebSafe(cleanTransaction)

----------------------------------------------------------------------------
(* Transaction: every method is an operator from the instance, its         *)
(* arguments and the RPC response to the new instance, the error raised,   *)
(* the RPCs issued and the value returned.                                 *)

NewTransaction == [isActive |-> FALSE, transactionId |-> Undefined, writes |-> <<>>]

R(t, e, rpcs, ret) == [tx |-> t, err |-> e, rpcs |-> rpcs, ret |-> ret]

Truthy(o) == o # Undefined /\ o[1] # <<>>

(* begin() without the already-active check *)
TxBegin_NoGuard(t, options, resp) ==
  LET rpc == [rpc |-> "beginTransaction",
              payload |-> [options |-> IF options = "undefined" THEN "readWrite" ELSE options]]
  IN  IF ~resp.ok THEN R(t, Err(resp.msg, "begin"), <<rpc>>, Undefined)
      ELSE R([t EXCEPT !.transactionId =
                          IF Truthy(resp.body) THEN Def(NormalizeToken(resp.body[1], utilities)) ELSE @,
                       !.isActive = TRUE],
             NoErr, <<rpc>>, Undefined)

TxBegin(t, options, resp) ==
  IF t.isActive THEN R(t, Err(MsgAlreadyActive, "begin"), <<>>, Undefined)
  ELSE
    LET rpc == [rpc |-> "beginTransaction",
                payload |-> [options |-> IF options = "undefined" THEN "readWrite" ELSE options]]
    IN  IF ~resp.ok THEN R(t, Err(resp.msg, "begin"), <<rpc>>, Undefined)
        ELSE R([t EXCEPT !.transactionId =
                            IF Truthy(resp.body) THEN Def(NormalizeToken(resp.body[1], utilities)) ELSE @,
                         !.isActive = TRUE],
               NoErr, <<rpc>>, Undefined)

TxGet(t, path, resp) ==
  IF ~t.isActive THEN R(t, Err(MsgNotActive, "get"), <<>>, Undefined)
  ELSE
    LET rpc == [rpc |-> "get", payload |-> [path |-> path, transaction |-> t.transactionId]]
    IN  IF ~resp.ok THEN R(t, Err(resp.msg, "get"), <<rpc>>, Undefined)
        ELSE IF ~IsDef(resp.body) THEN R(t, Err(MsgNoFields \o path, "get"), <<rpc>>, Undefined)
        ELSE R(t, NoErr, <<rpc>>, Def(resp.body[1]))

RECURSIVE Prefixed(_)
Prefixed(paths) ==
  IF paths = <<>> THEN <<>> ELSE <<BasePath \o Head(paths)>> \o Prefixed(Tail(paths))

IsFound(docItem) == docItem.found

(* getAll() returning every entry of the response, found or not *)
TxGetAll_KeepsMissing(t, paths, resp) ==
  IF ~t.isActive THEN R(t, Err(MsgNotActive, "getAll"), <<>>, Undefined)
  ELSE
    LET rpc == [rpc |-> "batchGet",
                payload |-> [documents |-> Prefixed(paths), transaction |-> t.transactionId]]
    IN  IF ~resp.ok THEN R(t, Err(resp.msg, "getAll"), <<rpc>>, Undefined)
        ELSE R(t, NoErr, <<rpc>>, Def(resp.body))

TxGetAll(t, paths, resp) ==
  IF ~t.isActive THEN R(t, Err(MsgNotActive, "getAll"), <<>>, Undefined)
  ELSE
    LET rpc == [rpc |-> "batchGet",
                payload |-> [documents |-> Prefixed(paths), transaction |-> t.transactionId]]
    IN  IF ~resp.ok THEN R(t, Err(resp.msg, "getAll"), <<rpc>>, Undefined)
        ELSE R(t, NoErr, <<rpc>>, Def(SelectSeq(resp.body, IsFound)))

(* create() staging the write without its precondition *)
TxCreate_NoPrecondition(t, path, fields) ==
  IF ~t.isActive THEN R(t, Err(MsgNotActive, "create"), <<>>, Undefined)
  ELSE IF getDocumentFromPath(path)[2] = <<>>
  THEN R(t, Err(MsgDocIdRequired, "create"), <<>>, Undefined)
  ELSE R([t EXCEPT !.writes = Append(@,
            [update |-> [name |-> getFullDocumentPath(path), fields |-> fields],
             currentDocument |-> Undefined, updateMask |-> Undefined])],
         NoErr, <<>>, Undefined)

TxCreate(t, path, fields) ==
  IF ~t.isActive THEN R(t, Err(MsgNotActive, "create"), <<>>, Undefined)
  ELSE IF getDocumentFromPath(path)[2] = <<>>
  THEN R(t, Err(MsgDocIdRequired, "create"), <<>>, Undefined)
  ELSE R([t EXCEPT !.writes = Append(@,
            [update |-> [name |-> getFullDocumentPath(path), fields |-> fields],
             currentDocument |-> Def(FALSE), updateMask |-> Undefined])],
         NoErr, <<>>, Undefined)

TxSet(t, path, fields, merge) ==
  IF ~t.isActive THEN R(t, Err(MsgNotActive, "set"), <<>>, Undefined)
  ELSE R([t EXCEPT !.writes = Append(@,
            [update |-> [name |-> getFullDocumentPath(path), fields |-> fields],
             currentDocument |-> Undefined,
             updateMask |-> IF merge THEN Def(EscapeFields(fields)) ELSE Undefined])],
         NoErr, <<>>, Undefined)

(* mask: t is its JavaScript type; b its value when a boolean, a its elements when  *)
(* an array, s its characters when the caller passes a string instead               *)
MaskTruthy(mask) ==
  CASE mask.t = "undefined" -> FALSE
    [] mask.t = "boolean"   -> mask.b
    [] mask.t = "array"     -> TRUE
    [] mask.t = "string"    -> mask.s # <<>>

(* update() taking the mask from the fields even when an array is given *)
TxUpdate_MaskFromFields(t, path, fields, mask) ==
  IF ~t.isActive THEN R(t, Err(MsgNotActive, "update"), <<>>, Undefined)
  ELSE
    LET write == [update |-> [name |-> getFullDocumentPath(path), fields |-> fields],
                  currentDocument |-> Def(TRUE), updateMask |-> Undefined]
    IN  IF ~MaskTruthy(mask) THEN R([t EXCEPT !.writes = Append(@, write)], NoErr, <<>>, Undefined)
        ELSE IF mask.t = "string" THEN R(t, Err(MsgMaskType, "update"), <<>>, Undefined)
        ELSE
          LET maskData == fields
          IN  IF Len(maskData) = 0 THEN R(t, Err(MsgMaskEmpty, "update"), <<>>, Undefined)
              ELSE R([t EXCEPT !.writes =
                        Append(@, [write EXCEPT !.updateMask = Def(EscapeFields(maskData))])],
                     NoErr, <<>>, Undefined)

TxUpdate(t, path, fields, mask) ==
  IF ~t.isActive THEN R(t, Err(MsgNotActive, "update"), <<>>, Undefined)
  ELSE
    LET write == [update |-> [name |-> getFullDocumentPath(path), fields |-> fields],
                  currentDocument |-> Def(TRUE), updateMask |-> Undefined]
    IN  IF ~MaskTruthy(mask) THEN R([t EXCEPT !.writes = Append(@, write)], NoErr, <<>>, Undefined)
        ELSE IF mask.t = "string" THEN R(t, Err(MsgMaskType, "update"), <<>>, Undefined)
        ELSE
          LET maskData == IF mask.t = "boolean" THEN fields ELSE mask.a
          IN  IF Len(maskData) = 0 THEN R(t, Err(MsgMaskEmpty, "update"), <<>>, Undefined)
              ELSE R([t EXCEPT !.writes =
                        Append(@, [write EXCEPT !.updateMask = Def(EscapeFields(maskData))])],
                     NoErr, <<>>, Undefined)

TxDelete(t, path) ==
  IF ~t.isActive THEN R(t, Err(MsgNotActive, "delete"), <<>>, Undefined)
  ELSE R([t EXCEPT !.writes = Append(@, [delete |-> getFullDocumentPath(path)])],
         NoErr, <<>>, Undefined)

(* transform() without the active check *)
TxTransform_Unguarded(t, path, field, transformation) ==
  R([t EXCEPT !.writes = Append(@,
       [transform |->
          [document |-> getFullDocumentPath(path),
           fieldTransforms |->
             << [fieldPath |-> IF IsDef(transformation.fieldPath)
                               THEN transformation.fieldPath[1] ELSE field,
                 kind |-> transformation.kind] >>]])],
    NoErr, <<>>, Undefined)

(* transformation: [fieldPath |-> optional override, kind |-> the transform it carries] *)
TxTransform(t, path, field, transformation) ==
  IF ~t.isActive THEN R(t, Err(MsgNotActive, "transform"), <<>>, Undefined)
  ELSE R([t EXCEPT !.writes = Append(@,
            [transform |->
               [document |-> getFullDocumentPath(path),
                fieldTransforms |->
                  << [fieldPath |-> IF IsDef(transformation.fieldPath)
                                    THEN transformation.fieldPath[1] ELSE field,
                      kind |-> transformation.kind] >>]])],
         NoErr, <<>>, Undefined)

TxCommit(t, resp) ==
  IF ~t.isActive THEN R(t, Err(MsgNotActive, "commit"), <<>>, Undefined)
  ELSE
    LET rpc == [rpc |-> "commit",
                payload |-> [writes |-> t.writes, transaction |-> t.transactionId]]
    IN  IF ~resp.ok THEN R(t, Err(resp.msg, "commit"), <<rpc>>, Undefined)
        ELSE R([isActive |-> FALSE, transactionId |-> Undefined, writes |-> <<>>],
               NoErr, <<rpc>>,
               Def(IF IsDef(resp.body) THEN resp.body[1] ELSE <<>>))

(* rollback() that forgets to empty the pending writes *)
TxRollback_KeepsWrites(t, resp) ==
  IF ~t.isActive THEN R(t, Err(MsgNotActive, "rollback"), <<>>, Undefined)
  ELSE
    LET rpc == [rpc |-> "rollback", payload |-> [transaction |-> t.transactionId]]
    IN  IF ~resp.ok THEN R(t, Err(resp.msg, "rollback"), <<rpc>>, Undefined)
        ELSE R([isActive |-> FALSE, transactionId |-> Undefined, writes |-> t.writes],
               NoErr, <<rpc>>, Def(resp.body))

TxRollback(t, resp) ==
  IF ~t.isActive THEN R(t, Err(MsgNotActive, "rollback"), <<>>, Undefined)
  ELSE
    LET rpc == [rpc |-> "rollback", payload |-> [transaction |-> t.transactionId]]
    IN  IF ~resp.ok THEN R(t, Err(resp.msg, "rollback"), <<rpc>>, Undefined)
        ELSE R([isActive |-> FALSE, transactionId |-> Undefined, writes |-> <<>>],
               NoErr, <<rpc>>, Def(resp.body))

----------------------------------------------------------------------------
(* Numbers as decimal strings, as a template literal or String(n) prints them *)

Digit(d) ==
  CASE d = 0 -> "0" [] d = 1 -> "1" [] d = 2 -> "2" [] d = 3 -> "3" [] d = 4 -> "4"
    [] d = 5 -> "5" [] d = 6 -> "6" [] d = 7 -> "7" [] d = 8 -> "8" [] d = 9 -> "9"

RECURSIVE NatToString(_)
NatToString(n) ==
  IF n < 10 THEN <<Digit(n)>> ELSE NatToString(n \div 10) \o <<Digit(n % 10)>>

IntToString(n) == IF n < 0 THEN <<"-">> \o NatToString(-n) ELSE NatToString(n)

----------------------------------------------------------------------------
(* WriteBatch: every method is an operator from the pending writes and its *)
(* arguments (and the RPC response) to the new pending writes, the error   *)
(* raised, the RPCs issued and the value returned.                         *)

MsgBatchDocIdRequired ==
  <<"D", "o", "c", "u", "m", "e", "n", "t", " ", "I", "D", " ", "i", "s", " ",
    "r", "e", "q", "u", "i", "r", "e", "d", " ", "f", "o", "r", " ",
    "b", "a", "t", "c", "h", " ",
    "c", "r", "e", "a", "t", "e", " ", "o", "p", "e", "r", "a", "t", "i", "o", "n", "s">>

MsgEmptyBatch ==
  <<"C", "a", "n", "n", "o", "t", " ", "c", "o", "m", "m", "i", "t", " ",
    "e", "m", "p", "t", "y", " ", "b", "a", "t", "c", "h">>

MsgEmptyWritesArray ==
  <<"C", "a", "n", "n", "o", "t", " ", "p", "e", "r", "f", "o", "r", "m", " ",
    "b", "a", "t", "c", "h", " ", "w", "r", "i", "t", "e", " ", "w", "i", "t", "h", " ",
    "e", "m", "p", "t", "y", " ", "w", "r", "i", "t", "e", "s", " ",
    "a", "r", "r", "a", "y">>

MsgUnknownError == <<"U", "n", "k", "n", "o", "w", "n", " ", "e", "r", "r", "o", "r">>

(* Batch write operation <i> failed: <message> *)
MsgOperationFailed(i, message) ==
  <<"B", "a", "t", "c", "h", " ", "w", "r", "i", "t", "e", " ",
    "o", "p", "e", "r", "a", "t", "i", "o", "n", " ">>
  \o IntToString(i)
  \o <<" ", "f", "a", "i", "l", "e", "d", ":", " ">>
  \o message

NewWriteBatch == [writes |-> <<>>]

(* encodeURIComponent on the characters the paths of the model are made of *)
EncodeChar(c) == IF c = " " THEN <<"%", "2", "0">> ELSE <<c>>

RECURSIVE EncodeSegment(_)
EncodeSegment(s) ==
  IF s = <<>> THEN <<>> ELSE EncodeChar(Head(s)) \o EncodeSegment(Tail(s))

RECURSIVE EncodeSegments(_)
EncodeSegments(segs) ==
  IF segs = <<>> THEN <<>> ELSE <<EncodeSegment(Head(segs))>> \o EncodeSegments(Tail(segs))

cleanDocumentPath(path) ==
  JoinWith(EncodeSegments(SelectSeq(SplitOn(path, "/", <<>>), NonEmpty)), "/")

getFullDocumentPathOfBatch(path) ==
  StripTrailingSlash(BasePath) \o <<"/">> \o StripLeadingSlash(cleanDocumentPath(path))

(* create() staging the write whatever the path *)
WbCreate_NoIdCheck(b, path, fields) ==
  R([b EXCEPT !.writes = Append(@,
       [update |-> [name |-> getFullDocumentPathOfBatch(path), fields |-> fields],
        currentDocument |-> Def(FALSE), updateMask |-> Undefined])],
    NoErr, <<>>, Undefined)

WbCreate(b, path, fields) ==
  IF getDocumentFromPath(path)[2] = <<>>
  THEN R(b, Err(MsgBatchDocIdRequired, "create"), <<>>, Undefined)
  ELSE R([b EXCEPT !.writes = Append(@,
            [update |-> [name |-> getFullDocumentPathOfBatch(path), fields |-> fields],
             currentDocument |-> Def(FALSE), updateMask |-> Undefined])],
         NoErr, <<>>, Undefined)

WbSet(b, path, fields, merge) ==
  R([b EXCEPT !.writes = Append(@,
       [update |-> [name |-> getFullDocumentPathOfBatch(path), fields |-> fields],
        currentDocument |-> Undefined,
        updateMask |-> IF merge THEN Def(EscapeFields(fields)) ELSE Undefined])],
    NoErr, <<>>, Undefined)

(* update() pushing the write before it validates the mask *)
WbUpdate_PushFirst(b, path, fields, mask) ==
  LET write == [update |-> [name |-> getFullDocumentPathOfBatch(path), fields |-> fields],
                currentDocument |-> Def(TRUE), updateMask |-> Undefined]
      pushed == [b EXCEPT !.writes = Append(@, write)]
  IN  IF ~MaskTruthy(mask) THEN R(pushed, NoErr, <<>>, Undefined)
      ELSE IF mask.t = "string" THEN R(pushed, Err(MsgMaskType, "update"), <<>>, Undefined)
      ELSE
        LET maskData == IF mask.t = "boolean" THEN fields ELSE mask.a
        IN  IF Len(maskData) = 0 THEN R(pushed, Err(MsgMaskEmpty, "update"), <<>>, Undefined)
            ELSE R([b EXCEPT !.writes =
                      Append(@, [write EXCEPT !.updateMask = Def(EscapeFields(maskData))])],
                   NoErr, <<>>, Undefined)

WbUpdate(b, path, fields, mask) ==
  LET write == [update |-> [name |-> getFullDocumentPathOfBatch(path), fields |-> fields],
                currentDocument |-> Def(TRUE), updateMask |-> Undefined]
  IN  IF ~MaskTruthy(mask) THEN R([b EXCEPT !.writes = Append(@, write)], NoErr, <<>>, Undefined)
      ELSE IF mask.t = "string" THEN R(b, Err(MsgMaskType, "update"), <<>>, Undefined)
      ELSE
        LET maskData == IF mask.t = "boolean" THEN fields ELSE mask.a
        IN  IF Len(maskData) = 0 THEN R(b, Err(MsgMaskEmpty, "update"), <<>>, Undefined)
            ELSE R([b EXCEPT !.writes =
                      Append(@, [write EXCEPT !.updateMask = Def(EscapeFields(maskData))])],
                   NoErr, <<>>, Undefined)

WbDelete(b, path) ==
  R([b EXCEPT !.writes = Append(@, [delete |-> getFullDocumentPathOfBatch(path)])],
    NoErr, <<>>, Undefined)

(* A JavaScript value handed to a transform: a number n or an array of numbers *)
JsTruthy(v) == v.isArray \/ v.n # 0

(* Document.wrapValue on numbers and arrays of numbers *)
wrapNumber(n) == [integerValue |-> IntToString(n)]

RECURSIVE wrapNumbers(_)
wrapNumbers(ns) ==
  IF ns = <<>> THEN <<>> ELSE <<wrapNumber(Head(ns))>> \o wrapNumbers(Tail(ns))

wrapTransformValue(v) ==
  IF v.isArray THEN [arrayValue |-> [values |-> wrapNumbers(v.elems)]] ELSE wrapNumber(v.n)

(* Array.isArray(x) ? x.map(Document.wrapValue) : [Document.wrapValue(x)] *)
wrapElements(v) == IF v.isArray THEN wrapNumbers(v.elems) ELSE <<wrapNumber(v.n)>>

(* The field transforms one entry of the transforms object contributes.     *)
(* transform: t is its JavaScript type, s its characters when a string, and *)
(* increment, arrayUnion, arrayRemove its properties when an object.        *)
FieldTransformsOf(field, transform) ==
  IF transform.t = "string" /\ transform.s = <<"s", "e", "r", "v", "e", "r",
                                               "T", "i", "m", "e", "s", "t", "a", "m", "p">>
  THEN << [fieldPath |-> EscapeField(field), setToServerValue |-> "REQUEST_TIME"] >>
  ELSE IF transform.t = "object"
  THEN IF IsDef(transform.increment)
       THEN << [fieldPath |-> EscapeField(field),
                increment |-> wrapTransformValue(transform.increment[1])] >>
       ELSE IF IsDef(transform.arrayUnion) /\ JsTruthy(transform.arrayUnion[1])
       THEN << [fieldPath |-> EscapeField(field),
                appendMissingElements |-> [values |-> wrapElements(transform.arrayUnion[1])]] >>
       ELSE IF IsDef(transform.arrayRemove) /\ JsTruthy(transform.arrayRemove[1])
       THEN << [fieldPath |-> EscapeField(field),
                removeAllFromArray |-> [values |-> wrapElements(transform.arrayRemove[1])]] >>
       ELSE <<>>
  ELSE <<>>

RECURSIVE FieldTransforms(_)
(* for (const [field, transform] of Object.entries(transforms)) *)
FieldTransforms(entries) ==
  IF entries = <<>> THEN <<>>
  ELSE FieldTransformsOf(Head(entries).field, Head(entries).transform)
       \o FieldTransforms(Tail(entries))

WbTransform(b, path, transforms) ==
  LET fieldTransforms == FieldTransforms(transforms)
  IN  IF Len(fieldTransforms) > 0
      THEN R([b EXCEPT !.writes = Append(@,
                [transform |-> [document |-> getFullDocumentPathOfBatch(path),
                                fieldTransforms |-> fieldTransforms]])],
             NoErr, <<>>, Undefined)
      ELSE R(b, NoErr, <<>>, Undefined)

(* the status loop reporting the last failing index instead of the first *)
RECURSIVE FirstFailing_Last(_, _)
FirstFailing_Last(status, i) ==
  IF i >= Len(status) THEN -1
  ELSE LET later == FirstFailing_Last(status, i + 1)
       IN  IF later >= 0 THEN later
           ELSE IF IsDef(status[i + 1].code) /\ status[i + 1].code[1] # 0 THEN i
           ELSE -1

(* status.code && status.code !== 0, for the first i (from 0) where it holds; *)
(* -1 when there is none                                                       *)
RECURSIVE FirstFailing(_, _)
FirstFailing(status, i) ==
  IF i >= Len(status) THEN -1
  ELSE IF IsDef(status[i + 1].code) /\ status[i + 1].code[1] # 0 THEN i
  ELSE FirstFailing(status, i + 1)

(* What follows request.post in commit() and batchWrite(): the status list  *)
(* is inspected and the write results are returned.  body: status and       *)
(* writeResults, each optional                                              *)
BatchOutcome(body, at) ==
  LET status == IF IsDef(body.status) THEN body.status[1] ELSE <<>>
      i      == FirstFailing(status, 0)
  IN  IF i >= 0
      THEN [err |-> Err(MsgOperationFailed(i, IF status[i + 1].message # <<>>
                                              THEN status[i + 1].message
                                              ELSE MsgUnknownError), at),
            ret |-> Undefined]
      ELSE [err |-> NoErr,
            ret |-> Def(IF IsDef(body.writeResults) THEN body.writeResults[1] ELSE <<>>)]

(* commit() leaving the pending writes in place *)
WbCommit_KeepsWrites(b, resp) ==
  IF Len(b.writes) = 0 THEN R(b, Err(MsgEmptyBatch, "commit"), <<>>, Undefined)
  ELSE
    LET rpc == [rpc |-> "batchWrite", payload |-> [writes |-> b.writes]]
    IN  IF ~resp.ok THEN R(b, Err(resp.msg, "commit"), <<rpc>>, Undefined)
        ELSE LET o == BatchOutcome(resp.body, "commit")
             IN  R(b, o.err, <<rpc>>, o.ret)

WbCommit(b, resp) ==
  IF Len(b.writes) = 0 THEN R(b, Err(MsgEmptyBatch, "commit"), <<>>, Undefined)
  ELSE
    LET rpc == [rpc |-> "batchWrite", payload |-> [writes |-> b.writes]]
    IN  IF ~resp.ok THEN R(b, Err(resp.msg, "commit"), <<rpc>>, Undefined)
        ELSE LET o == BatchOutcome(resp.body, "commit")
             IN  R([b EXCEPT !.writes = <<>>], o.err, <<rpc>>, o.ret)

WbSize(b) == R(b, NoErr, <<>>, Def(Len(b.writes)))

(* Firestore.batchWrite *)
batchWrite(writes, resp) ==
  IF Len(writes) = 0 THEN [err |-> Err(MsgEmptyWritesArray, "batchWrite"), rpcs |-> <<>>,
                           ret |-> Undefined]
  ELSE
    LET rpc == [rpc |-> "batchWrite", payload |-> [writes |-> writes]]
    IN  IF ~resp.ok THEN [err |-> Err(resp.msg, "batchWrite"), rpcs |-> <<rpc>>, ret |-> Undefined]
        ELSE LET o == BatchOutcome(resp.body, "batchWrite")
             IN  [err |-> o.err, rpcs |-> <<rpc>>, ret |-> o.ret]

----------------------------------------------------------------------------
(* Inputs: arguments of the calls and responses of the remote service *)

Fail(m) == [ok |-> FALSE, msg |-> m, body |-> Undefined]
Ok(b)   == [ok |-> TRUE, msg |-> <<>>, body |-> b]

RpcErrors == {MsgAborted, MsgNotFound}
Failures  == {Fail(m) : m \in RpcErrors}

DocPath == <<"c", "/", "d">>
ColPath == <<"c">>
PathInputs == {DocPath, ColPath}

FieldA  == <<"a">>
FieldXY == <<"x", BT, "y">>
FieldsInputs == {<<>>, <<FieldA, FieldXY>>}

MaskInputs ==
  { [t |-> "undefined", b |-> FALSE, a |-> <<>>, s |-> <<>>],
    [t |-> "boolean", b |-> FALSE, a |-> <<>>, s |-> <<>>],
    [t |-> "boolean", b |-> TRUE, a |-> <<>>, s |-> <<>>],
    [t |-> "array", b |-> FALSE, a |-> <<>>, s |-> <<>>],
    [t |-> "array", b |-> FALSE, a |-> <<FieldA>>, s |-> <<>>],
    [t |-> "string", b |-> FALSE, a |-> <<>>, s |-> <<"m">>] }

TransformInputs ==
  { [fieldPath |-> Undefined, kind |-> "setToServerValue"],
    [fieldPath |-> Def(FieldXY), kind |-> "increment"] }

OptionsInputs == {"undefined", "readOnly", "readWrite"}

(* beginTransaction responses: no token, an empty token, a padded base64   *)
(* token whose last character has unused bits set (a strict host rejects   *)
(* it), a token with whitespace that no host decodes                       *)
TokenInputs ==
  { Undefined, Def(<<>>), Def(<<"A", "+", "/", "=">>), Def(<<"b", " ", "=">>) }

BeginResponses  == Failures \cup {Ok(t) : t \in TokenInputs}
GetResponses    == Failures \cup {Ok(Undefined), Ok(Def(<<FieldA>>))}
GetAllInputs    == {<<>>, <<DocPath>>, <<DocPath, ColPath>>}
FoundLists(n)   == [1..n -> {[found |-> FALSE], [found |-> TRUE]}]
GetAllResponses(paths) == Failures \cup {Ok(b) : b \in FoundLists(Len(paths))}
CommitResponses(t) ==
  Failures \cup {Ok(Undefined), Ok(Def([i \in 1..Len(t.writes) |-> "writeResult"]))}
RollbackResponses == Failures \cup {Ok(Undefined)}

----------------------------------------------------------------------------
(* A Transaction driven by hand: any method, any time *)

Call(op, r) ==
  /\ tx' = r.tx
  /\ lastCall' = [op |-> op, err |-> r.err, rpcs |-> r.rpcs, ret |-> r.ret]
  /\ UNCHANGED utilities

NoCall == [op |-> "new", err |-> NoErr, rpcs |-> <<>>, ret |-> Undefined]

RunIdle ==
  /\ pc = "idle" /\ maxRetries = 0 /\ runOptions = "undefined" /\ attempt = 0
  /\ lastError = NoErr /\ caught = NoErr /\ result = Undefined
  /\ outcome = Undefined /\ hist = <<>> /\ att = <<>>

ClsIdle == errMsg = <<>> /\ retryable = Undefined

NoWbCall == [op |-> "new", err |-> NoErr, rpcs |-> <<>>, ret |-> Undefined]

(* ids: the numbers of the pending writes in the order of the calls that staged *)
(* them; next: the number the next staged write gets; committed: the numbers of *)
(* the writes sent by a commit() that returned                                  *)
NoWbHist == [ids |-> <<>>, next |-> 1, committed |-> {}]

WbIdle == wb = NewWriteBatch /\ wbCall = NoWbCall /\ wbHist = NoWbHist

(* new Query('c', callback): one collection, no filter, no offset, no limit, *)
(* no cursor                                                                *)
NewQuery ==
  [from |-> Def(<< [collectionId |-> <<"c">>, allDescendants |-> FALSE] >>),
   where |-> Undefined, offset |-> Undefined, limit |-> Undefined,
   startAt |-> Undefined, endAt |-> Undefined]

NoQueryCall ==
  [op |-> "new", args |-> <<>>, filters |-> <<>>, err |-> NoErr, ret |-> Undefined]

(* wheres: the filters of the Where calls that returned, in call order;     *)
(* onlyWhere: every call made so far was a Where call that returned         *)
NoQueryHist == [wheres |-> <<>>, onlyWhere |-> TRUE]

QueryIdle == q = NewQuery /\ qCall = NoQueryCall /\ qHist = NoQueryHist

(* new AggregateQuery(query, callback) *)
NewAggregateQuery == [aggregations |-> <<>>]

NoAggregateCall ==
  [op |-> "new", err |-> NoErr, ret |-> Undefined, callbacks |-> 0, answer |-> Undefined]

AggregateIdle == aq = NewAggregateQuery /\ aqCall = NoAggregateCall

(* no value is being converted *)
CodecIdle == codec = Undefined

CanStage == Len(tx.writes) < MaxWrites

Begin ==
  /\ \E options \in OptionsInputs, resp \in BeginResponses :
       Call("begin", TxBegin(tx, options, resp))
  /\ UNCHANGED <<runVars, clsVars, wbVars, qVars, aqVars, codec>>

Get ==
  /\ \E path \in PathInputs, resp \in GetResponses : Call("get", TxGet(tx, path, resp))
  /\ UNCHANGED <<runVars, clsVars, wbVars, qVars, aqVars, codec>>

GetAll ==
  /\ \E paths \in GetAllInputs : \E resp \in GetAllResponses(paths) :
       Call("getAll", TxGetAll(tx, paths, resp))
  /\ UNCHANGED <<runVars, clsVars, wbVars, qVars, aqVars, codec>>

Create ==
  /\ CanStage
  /\ \E path \in PathInputs, fields \in FieldsInputs :
       Call("create", TxCreate(tx, path, fields))
  /\ UNCHANGED <<runVars, clsVars, wbVars, qVars, aqVars, codec>>

Set ==
  /\ CanStage
  /\ \E fields \in FieldsInputs, merge \in BOOLEAN :
       Call("set", TxSet(tx, DocPath, fields, merge))
  /\ UNCHANGED <<runVars, clsVars, wbVars, qVars, aqVars, codec>>

Update ==
  /\ CanStage
  /\ \E fields \in FieldsInputs, mask \in MaskInputs :
       Call("update", TxUpdate(tx, DocPath, fields, mask))
  /\ UNCHANGED <<runVars, clsVars, wbVars, qVars, aqVars, codec>>

Delete ==
  /\ CanStage
  /\ Call("delete", TxDelete(tx, DocPath))
  /\ UNCHANGED <<runVars, clsVars, wbVars, qVars, aqVars, codec>>

Transform ==
  /\ CanStage
  /\ \E transformation \in TransformInputs :
       Call("transform", TxTransform(tx, DocPath, FieldA, transformation))
  /\ UNCHANGED <<runVars, clsVars, wbVars, qVars, aqVars, codec>>

Commit ==
  /\ \E resp \in CommitResponses(tx) : Call("commit", TxCommit(tx, resp))
  /\ UNCHANGED <<runVars, clsVars, wbVars, qVars, aqVars, codec>>

Rollback ==
  /\ \E resp \in RollbackResponses : Call("rollback", TxRollback(tx, resp))
  /\ UNCHANGED <<runVars, clsVars, wbVars, qVars, aqVars, codec>>

InitTx == tx = NewTransaction /\ lastCall = NoCall /\ utilities \in Hosts /\ RunIdle /\ ClsIdle /\ WbIdle /\ QueryIdle /\ AggregateIdle /\ CodecIdle

NextTx ==
  \/ Begin \/ Get \/ GetAll \/ Create \/ Set \/ Update \/ Delete \/ Transform
  \/ Commit \/ Rollback

SpecTx == InitTx /\ [][NextTx]_vars

----------------------------------------------------------------------------
(* A WriteBatch driven by hand, and Firestore.batchWrite called directly *)

MaxPending == 2   \* pending writes of the batch at any time
MaxStaged  == 2   \* writes staged on the batch over its whole life

Num(n) == [isArray |-> FALSE, n |-> n, elems |-> <<>>]
Arr(e) == [isArray |-> TRUE, n |-> 0, elems |-> e]

TString(s) ==
  [t |-> "string", s |-> s, increment |-> Undefined, arrayUnion |-> Undefined,
   arrayRemove |-> Undefined]
TObject(inc, union, remove) ==
  [t |-> "object", s |-> <<>>, increment |-> inc, arrayUnion |-> union, arrayRemove |-> remove]
TNull ==
  [t |-> "null", s |-> <<>>, increment |-> Undefined, arrayUnion |-> Undefined,
   arrayRemove |-> Undefined]

ServerTimestamp ==
  TString(<<"s", "e", "r", "v", "e", "r", "T", "i", "m", "e", "s", "t", "a", "m", "p">>)

(* the transforms objects: the four shapes of the vocabulary, and entries that *)
(* are none of them: another string, an object without a known key, null, an   *)
(* arrayUnion of 0                                                             *)
BatchTransformInputs ==
  { <<>>,
    << [field |-> FieldA, transform |-> ServerTimestamp] >>,
    << [field |-> FieldA, transform |-> TObject(Def(Num(1)), Undefined, Undefined)],
       [field |-> FieldXY, transform |-> TObject(Undefined, Def(Arr(<<1, 2>>)), Undefined)] >>,
    << [field |-> FieldXY, transform |-> TObject(Undefined, Undefined, Def(Num(-2)))] >>,
    << [field |-> FieldA, transform |-> TString(<<"d", "e", "l", "e", "t", "e">>)] >>,
    << [field |-> FieldA, transform |-> ServerTimestamp],
       [field |-> FieldXY, transform |-> TObject(Undefined, Undefined, Undefined)] >>,
    << [field |-> FieldA, transform |-> TNull] >>,
    << [field |-> FieldA, transform |-> TObject(Undefined, Def(Num(0)), Undefined)] >> }

(* batchWrite responses for n writes: the RPC raises, or returns a body with *)
(* an optional status list and optional write results                        *)
StatusInputs ==
  { [code |-> Undefined, message |-> <<>>],
    [code |-> Def(0), message |-> <<"O", "K">>],
    [code |-> Def(3), message |-> <<"b", "a", "d">>],
    [code |-> Def(5), message |-> <<>>] }

StatusLists(n) == UNION {[1..k -> StatusInputs] : k \in 0..n}

BatchWriteResponses(n) ==
  Failures \cup
  { Ok([status |-> s, writeResults |-> w]) :
      s \in {Undefined} \cup {Def(l) : l \in StatusLists(n)},
      w \in {Undefined, Def([i \in 1..n |-> "writeResult"])} }

BatchWriteInputs ==
  { <<>>, << [delete |-> getFullDocumentPathOfBatch(DocPath)] >>,
    << [delete |-> getFullDocumentPathOfBatch(DocPath)],
       [delete |-> getFullDocumentPathOfBatch(ColPath)] >> }

(* the history of the staged writes after a call that went from batch b to r.tx *)
WbTrack(h, b, op, r) ==
  LET staged == Len(r.tx.writes) = Len(b.writes) + 1
  IN  [ids |-> IF staged THEN Append(h.ids, h.next)
               ELSE IF r.tx.writes = <<>> THEN <<>> ELSE h.ids,
       next |-> IF staged THEN h.next + 1 ELSE h.next,
       committed |-> IF op = "commit" /\ r.rpcs # <<>> /\ ~Raised(r.err)
                     THEN h.committed \cup {h.ids[i] : i \in 1..Len(h.ids)}
                     ELSE h.committed]

WbCallOf(op, r) ==
  /\ wb' = r.tx
  /\ wbCall' = [op |-> op, err |-> r.err, rpcs |-> r.rpcs, ret |-> r.ret]
  /\ wbHist' = WbTrack(wbHist, wb, op, r)

CanStageWb == Len(wb.writes) < MaxPending /\ wbHist.next <= MaxStaged

BatchCreate ==
  /\ CanStageWb
  /\ \E path \in PathInputs, fields \in FieldsInputs :
       WbCallOf("create", WbCreate(wb, path, fields))
  /\ UNCHANGED <<txVars, runVars, clsVars, qVars, aqVars, codec>>

BatchSet ==
  /\ CanStageWb
  /\ \E fields \in FieldsInputs, merge \in BOOLEAN :
       WbCallOf("set", WbSet(wb, DocPath, fields, merge))
  /\ UNCHANGED <<txVars, runVars, clsVars, qVars, aqVars, codec>>

BatchUpdate ==
  /\ CanStageWb
  /\ \E fields \in FieldsInputs, mask \in MaskInputs :
       WbCallOf("update", WbUpdate(wb, DocPath, fields, mask))
  /\ UNCHANGED <<txVars, runVars, clsVars, qVars, aqVars, codec>>

BatchDelete ==
  /\ CanStageWb
  /\ WbCallOf("delete", WbDelete(wb, DocPath))
  /\ UNCHANGED <<txVars, runVars, clsVars, qVars, aqVars, codec>>

BatchTransform ==
  /\ CanStageWb
  /\ \E transforms \in BatchTransformInputs :
       WbCallOf("transform", WbTransform(wb, DocPath, transforms))
  /\ UNCHANGED <<txVars, runVars, clsVars, qVars, aqVars, codec>>

BatchCommit ==
  /\ \E resp \in BatchWriteResponses(Len(wb.writes)) :
       WbCallOf("commit", WbCommit(wb, resp))
  /\ UNCHANGED <<txVars, runVars, clsVars, qVars, aqVars, codec>>

BatchSize ==
  /\ WbCallOf("size", WbSize(wb))
  /\ UNCHANGED <<txVars, runVars, clsVars, qVars, aqVars, codec>>

(* Firestore.batchWrite(writes): the batch is not involved *)
BatchWrite ==
  /\ wb = NewWriteBatch /\ wbHist = NoWbHist
  /\ \E writes \in BatchWriteInputs : \E resp \in BatchWriteResponses(Len(writes)) :
       LET r == batchWrite(writes, resp)
       IN  wbCall' = [op |-> "batchWrite", err |-> r.err, rpcs |-> r.rpcs, ret |-> r.ret]
  /\ UNCHANGED <<wb, wbHist, txVars, runVars, clsVars, qVars, aqVars, codec>>

InitWb == WbIdle /\ tx = NewTransaction /\ lastCall = NoCall /\ utilities \in Hosts /\ RunIdle /\ ClsIdle /\ QueryIdle /\ AggregateIdle /\ CodecIdle

NextWb ==
  \/ BatchCreate \/ BatchSet \/ BatchUpdate \/ BatchDelete \/ BatchTransform
  \/ BatchCommit \/ BatchSize \/ BatchWrite

SpecWb == InitWb /\ [][NextWb]_vars

(* Either object driven by hand.  A WriteBatch and a Transaction share no  *)
(* state, so the calls on one are followed while the other is left as      *)
(* constructed.                                                            *)
TxUntouched == tx = NewTransaction /\ lastCall = NoCall

NextWrites ==
  \/ WbIdle /\ Begin
  \/ WbIdle /\ Get
  \/ WbIdle /\ GetAll
  \/ WbIdle /\ Create
  \/ WbIdle /\ Set
  \/ WbIdle /\ Update
  \/ WbIdle /\ Delete
  \/ WbIdle /\ Transform
  \/ WbIdle /\ Commit
  \/ WbIdle /\ Rollback
  \/ TxUntouched /\ BatchCreate
  \/ TxUntouched /\ BatchSet
  \/ TxUntouched /\ BatchUpdate
  \/ TxUntouched /\ BatchDelete
  \/ TxUntouched /\ BatchTransform
  \/ TxUntouched /\ BatchCommit
  \/ TxUntouched /\ BatchSize
  \/ TxUntouched /\ BatchWrite

SpecWrites == InitWb /\ [][NextWrites]_vars

(* A Transaction and a WriteBatch given the same requests.  After begin()  *)
(* every staging call made on the transaction is made on the batch as      *)
(* well.  A transform request names a field and the server value to set:   *)
(* the batch takes it as the entry field: 'serverTimestamp' of its         *)
(* transforms object, the transaction as the field and the FieldTransform  *)
(* {setToServerValue: 'REQUEST_TIME'}.                                     *)
TransformFields == {FieldA, FieldXY}

AsTransformation == [fieldPath |-> Undefined, kind |-> "setToServerValue"]
AsTransforms(field) == << [field |-> field, transform |-> ServerTimestamp] >>

CanStageBoth == tx.isActive /\ CanStage /\ CanStageWb

BothCreate ==
  /\ CanStageBoth
  /\ \E path \in PathInputs, fields \in FieldsInputs :
       /\ Call("create", TxCreate(tx, path, fields))
       /\ WbCallOf("create", WbCreate(wb, path, fields))
  /\ UNCHANGED <<runVars, clsVars, qVars, aqVars, codec>>

BothSet ==
  /\ CanStageBoth
  /\ \E fields \in FieldsInputs, merge \in BOOLEAN :
       /\ Call("set", TxSet(tx, DocPath, fields, merge))
       /\ WbCallOf("set", WbSet(wb, DocPath, fields, merge))
  /\ UNCHANGED <<runVars, clsVars, qVars, aqVars, codec>>

BothUpdate ==
  /\ CanStageBoth
  /\ \E fields \in FieldsInputs, mask \in MaskInputs :
       /\ Call("update", TxUpdate(tx, DocPath, fields, mask))
       /\ WbCallOf("update", WbUpdate(wb, DocPath, fields, mask))
  /\ UNCHANGED <<runVars, clsVars, qVars, aqVars, codec>>

BothDelete ==
  /\ CanStageBoth
  /\ Call("delete", TxDelete(tx, DocPath))
  /\ WbCallOf("delete", WbDelete(wb, DocPath))
  /\ UNCHANGED <<runVars, clsVars, qVars, aqVars, codec>>

BothTransform ==
  /\ CanStageBoth
  /\ \E field \in TransformFields :
       /\ Call("transform", TxTransform(tx, DocPath, field, AsTransformation))
       /\ WbCallOf("transform", WbTransform(wb, DocPath, AsTransforms(field)))
  /\ UNCHANGED <<runVars, clsVars, qVars, aqVars, codec>>

NextBoth ==
  \/ WbIdle /\ Begin
  \/ BothCreate \/ BothSet \/ BothUpdate \/ BothDelete \/ BothTransform

SpecBoth == InitWb /\ [][NextBoth]_vars

----------------------------------------------------------------------------
(* Firestore.isRetryableError *)

(* The characters of the model that toLowerCase leaves as they are: the    *)
(* printable ASCII and Latin-1 characters that are not upper-case letters,  *)
(* the whitespace, and the combining dot U+0307.                            *)
Caseless ==
  Whitespace \cup
  { " ", "!", "\"", "#", "$", "%", "&", "'", "(", ")", "*", "+", ",", "-",
    ".", "/", "0", "1", "2", "3", "4", "5", "6", "7", "8", "9", ":", ";",
    "<", "=", ">", "?", "@", "[", "\\", "]", "^", "_", "a", "b", "c", "d",
    "e", "f", "g", "h", "i", "j", "k", "l", "m", "n", "o", "p", "q", "r",
    "s", "t", "u", "v", "w", "x", "y", "z", "{", "|", "}", "~", BT, "¡",
    "¢", "£", "¤", "¥", "¦", "§", "¨", "©", "ª", "«", "¬", "­", "®", "¯",
    "°", "±", "²", "³", "´", "µ", "¶", "·", "¸", "¹", "º", "»", "¼", "½",
    "¾", "¿", "×", "ß", "à", "á", "â", "ã", "ä", "å", "æ", "ç", "è", "é",
    "ê", "ë", "ì", "í", "î", "ï", "ð", "ñ", "ò", "ó", "ô", "õ", "ö", "÷",
    "ø", "ù", "ú", "û", "ü", "ý", "þ", "ÿ", "<U+0307>" }

(* String.prototype.toLowerCase on one character of the model: the ASCII   *)
(* and Latin-1 letters, and U+0130, whose lower case is two characters.     *)
(* Other characters are outside the model.                                  *)
LowerCase(c) ==
  CASE c \in Caseless -> <<c>>
    [] c = "A" -> <<"a">> [] c = "B" -> <<"b">> [] c = "C" -> <<"c">>
    [] c = "D" -> <<"d">> [] c = "E" -> <<"e">> [] c = "F" -> <<"f">>
    [] c = "G" -> <<"g">> [] c = "H" -> <<"h">> [] c = "I" -> <<"i">>
    [] c = "J" -> <<"j">> [] c = "K" -> <<"k">> [] c = "L" -> <<"l">>
    [] c = "M" -> <<"m">> [] c = "N" -> <<"n">> [] c = "O" -> <<"o">>
    [] c = "P" -> <<"p">> [] c = "Q" -> <<"q">> [] c = "R" -> <<"r">>
    [] c = "S" -> <<"s">> [] c = "T" -> <<"t">> [] c = "U" -> <<"u">>
    [] c = "V" -> <<"v">> [] c = "W" -> <<"w">> [] c = "X" -> <<"x">>
    [] c = "Y" -> <<"y">> [] c = "Z" -> <<"z">> [] c = "À" -> <<"à">>
    [] c = "Á" -> <<"á">> [] c = "Â" -> <<"â">> [] c = "Ã" -> <<"ã">>
    [] c = "Ä" -> <<"ä">> [] c = "Å" -> <<"å">> [] c = "Æ" -> <<"æ">>
    [] c = "Ç" -> <<"ç">> [] c = "È" -> <<"è">> [] c = "É" -> <<"é">>
    [] c = "Ê" -> <<"ê">> [] c = "Ë" -> <<"ë">> [] c = "Ì" -> <<"ì">>
    [] c = "Í" -> <<"í">> [] c = "Î" -> <<"î">> [] c = "Ï" -> <<"ï">>
    [] c = "Ð" -> <<"ð">> [] c = "Ñ" -> <<"ñ">> [] c = "Ò" -> <<"ò">>
    [] c = "Ó" -> <<"ó">> [] c = "Ô" -> <<"ô">> [] c = "Õ" -> <<"õ">>
    [] c = "Ö" -> <<"ö">> [] c = "Ø" -> <<"ø">> [] c = "Ù" -> <<"ù">>
    [] c = "Ú" -> <<"ú">> [] c = "Û" -> <<"û">> [] c = "Ü" -> <<"ü">>
    [] c = "Ý" -> <<"ý">> [] c = "Þ" -> <<"þ">> [] c = "<U+0130>" -> <<"i", "<U+0307>">>

RECURSIVE toLowerCase(_)
toLowerCase(s) ==
  IF s = <<>> THEN <<>> ELSE LowerCase(Head(s)) \o toLowerCase(Tail(s))

includes(s, k) ==
  \E i \in 0..(Len(s) - Len(k)) : SubSeq(s, i + 1, i + Len(k)) = k

KwAborted    == <<"a", "b", "o", "r", "t", "e", "d">>
KwConflict   == <<"c", "o", "n", "f", "l", "i", "c", "t">>
KwContention == <<"c", "o", "n", "t", "e", "n", "t", "i", "o", "n">>
KwTooMuchContention ==
  <<"t", "o", "o", " ", "m", "u", "c", "h", " ", "c", "o", "n", "t", "e", "n", "t", "i", "o", "n">>
KwDeadlineExceeded ==
  <<"d", "e", "a", "d", "l", "i", "n", "e", " ", "e", "x", "c", "e", "e", "d", "e", "d">>

(* isRetryableError without toLowerCase *)
isRetryableError_CaseSensitive(message) ==
  \/ includes(message, KwAborted)
  \/ includes(message, KwConflict)
  \/ includes(message, KwContention)
  \/ includes(message, KwTooMuchContention)
  \/ includes(message, KwDeadlineExceeded)

isRetryableError(message0) ==
  LET message == toLowerCase(message0)
  IN  \/ includes(message, KwAborted)
      \/ includes(message, KwConflict)
      \/ includes(message, KwContention)
      \/ includes(message, KwTooMuchContention)
      \/ includes(message, KwDeadlineExceeded)

----------------------------------------------------------------------------
(* Query.filter_: the operator of a filter *)

FieldFilterOpKeys ==
  { <<"=", "=">>,
    <<"=", "=", "=">>,
    <<"!", "=">>,
    <<"!", "=", "=">>,
    <<"<">>,
    <<"<", "=">>,
    <<">">>,
    <<">", "=">>,
    <<"c", "o", "n", "t", "a", "i", "n", "s">>,
    <<"c", "o", "n", "t", "a", "i", "n", "s", "a", "n", "y">>,
    <<"i", "n">>,
    <<"n", "o", "t", "i", "n">>,
    <<"n", "o", "t", "-", "i", "n">> }

UnaryFilterOpKeys == { <<"n", "a", "n">>, <<"n", "u", "l", "l">> }

(* the names an object inherits from Object.prototype *)
ObjectPrototypeKeys ==
  { <<"c", "o", "n", "s", "t", "r", "u", "c", "t", "o", "r">>,
    <<"_", "_", "p", "r", "o", "t", "o", "_", "_">>,
    <<"t", "o", "S", "t", "r", "i", "n", "g">>,
    <<"t", "o", "L", "o", "c", "a", "l", "e", "S", "t", "r", "i", "n", "g">>,
    <<"v", "a", "l", "u", "e", "O", "f">>,
    <<"h", "a", "s", "O", "w", "n", "P", "r", "o", "p", "e", "r", "t", "y">>,
    <<"i", "s", "P", "r", "o", "t", "o", "t", "y", "p", "e", "O", "f">>,
    <<"p", "r", "o", "p", "e", "r", "t", "y", "I", "s", "E", "n", "u", "m", "e", "r", "a", "b", "l", "e">>,
    <<"_", "_", "d", "e", "f", "i", "n", "e", "G", "e", "t", "t", "e", "r", "_", "_">>,
    <<"_", "_", "d", "e", "f", "i", "n", "e", "S", "e", "t", "t", "e", "r", "_", "_">>,
    <<"_", "_", "l", "o", "o", "k", "u", "p", "G", "e", "t", "t", "e", "r", "_", "_">>,
    <<"_", "_", "l", "o", "o", "k", "u", "p", "S", "e", "t", "t", "e", "r", "_", "_">> }

(* Object.prototype[key], by name: a function, or the prototype's own      *)
(* prototype link for __proto__                                            *)
ObjectPrototype(key) ==
  CASE key = <<"c", "o", "n", "s", "t", "r", "u", "c", "t", "o", "r">> -> "function Object"
    [] key = <<"_", "_", "p", "r", "o", "t", "o", "_", "_">> -> "Object.prototype"
    [] key = <<"t", "o", "S", "t", "r", "i", "n", "g">> -> "function toString"
    [] key = <<"t", "o", "L", "o", "c", "a", "l", "e", "S", "t", "r", "i", "n", "g">> -> "function toLocaleString"
    [] key = <<"v", "a", "l", "u", "e", "O", "f">> -> "function valueOf"
    [] key = <<"h", "a", "s", "O", "w", "n", "P", "r", "o", "p", "e", "r", "t", "y">> -> "function hasOwnProperty"
    [] key = <<"i", "s", "P", "r", "o", "t", "o", "t", "y", "p", "e", "O", "f">> -> "function isPrototypeOf"
    [] key = <<"p", "r", "o", "p", "e", "r", "t", "y", "I", "s", "E", "n", "u", "m", "e", "r", "a", "b", "l", "e">> -> "function propertyIsEnumerable"
    [] key = <<"_", "_", "d", "e", "f", "i", "n", "e", "G", "e", "t", "t", "e", "r", "_", "_">> -> "function __defineGetter__"
    [] key = <<"_", "_", "d", "e", "f", "i", "n", "e", "S", "e", "t", "t", "e", "r", "_", "_">> -> "function __defineSetter__"
    [] key = <<"_", "_", "l", "o", "o", "k", "u", "p", "G", "e", "t", "t", "e", "r", "_", "_">> -> "function __lookupGetter__"
    [] key = <<"_", "_", "l", "o", "o", "k", "u", "p", "S", "e", "t", "t", "e", "r", "_", "_">> -> "function __lookupSetter__"

(* key in object, for an object literal with the own keys ownKeys *)
In(key, ownKeys) == key \in ownKeys \/ key \in ObjectPrototypeKeys

MsgInvalidOperator ==
  <<"I", "n", "v", "a", "l", "i", "d", " ", "O", "p", "e", "r", "a", "t", "o", "r", " ", "g", "i", "v", "e", "n", ":", " ">>

(* s.replace(c, r): the first occurrence only *)
RECURSIVE ReplaceFirst(_, _, _)
ReplaceFirst(s, c, r) ==
  IF s = <<>> THEN <<>>
  ELSE IF Head(s) = c THEN r \o Tail(s)
  ELSE <<Head(s)>> \o ReplaceFirst(Tail(s), c, r)

(* operator.toLowerCase().replace('_', '') *)
NormalizeOperator(operator) == ReplaceFirst(toLowerCase(operator), "_", <<>>)

(* the error filter_ raises for a string operator, if any *)
FilterError(operator) ==
  LET op == NormalizeOperator(operator)
  IN  IF In(op, FieldFilterOpKeys) \/ In(op, UnaryFilterOpKeys) THEN NoErr
      ELSE Err(MsgInvalidOperator \o op, "filter")

(* JavaScript values handed to the query builder: t is the type typeof      *)
(* reports ("null" for null), s the characters of a string, n the value of  *)
(* a number and nan whether the number is NaN                               *)
JsUndefined == [t |-> "undefined", s |-> <<>>, n |-> 0, nan |-> FALSE]
JsNull      == [t |-> "null", s |-> <<>>, n |-> 0, nan |-> FALSE]
JsNaN       == [t |-> "number", s |-> <<>>, n |-> 0, nan |-> TRUE]
JsNumber(n) == [t |-> "number", s |-> <<>>, n |-> n, nan |-> FALSE]
JsString(s) == [t |-> "string", s |-> s, n |-> 0, nan |-> FALSE]

(* String(v), which is also the property key v stands for in (v in object) *)
JsToString(v) ==
  CASE v.t = "string"    -> v.s
    [] v.t = "null"      -> <<"n", "u", "l", "l">>
    [] v.t = "undefined" -> <<"u", "n", "d", "e", "f", "i", "n", "e", "d">>
    [] v.t = "number"    -> IF v.nan THEN <<"N", "a", "N">> ELSE IntToString(v.n)

(* value == null *)
IsNullish(v) == v.t = "null" \/ v.t = "undefined"

isNumberNaN(v) == v.t = "number" /\ v.nan

isNumeric(v) == v.t = "number" /\ ~v.nan

(* Document.wrapValue on the values of the model *)
wrapValue(v) ==
  CASE IsNullish(v)   -> [nullValue |-> "NULL_VALUE"]
    [] v.t = "string" -> [stringValue |-> v.s]
    [] v.t = "number" -> IF v.nan THEN [doubleValue |-> <<"N", "a", "N">>] ELSE wrapNumber(v.n)

FieldFilterOps_(key) ==
  CASE key = <<"=", "=">>          -> "EQUAL"
    [] key = <<"=", "=", "=">>         -> "EQUAL"
    [] key = <<"!", "=">>          -> "NOT_EQUAL"
    [] key = <<"!", "=", "=">>         -> "NOT_EQUAL"
    [] key = <<"<">>           -> "LESS_THAN"
    [] key = <<"<", "=">>          -> "LESS_THAN_OR_EQUAL"
    [] key = <<">">>           -> "GREATER_THAN"
    [] key = <<">", "=">>          -> "GREATER_THAN_OR_EQUAL"
    [] key = <<"c", "o", "n", "t", "a", "i", "n", "s">>    -> "ARRAY_CONTAINS"
    [] key = <<"c", "o", "n", "t", "a", "i", "n", "s", "a", "n", "y">> -> "ARRAY_CONTAINS_ANY"
    [] key = <<"i", "n">>          -> "IN"
    [] key = <<"n", "o", "t", "i", "n">>       -> "NOT_IN"
    [] key = <<"n", "o", "t", "-", "i", "n">>      -> "NOT_IN"
    [] key \in ObjectPrototypeKeys -> ObjectPrototype(key)

UnaryFilterOps_(key) ==
  CASE key = <<"n", "a", "n">>  -> "IS_NAN"
    [] key = <<"n", "u", "l", "l">> -> "IS_NULL"
    [] key \in ObjectPrototypeKeys -> ObjectPrototype(key)

(* f.replace(BT, '\\' + BT): the first backtick only, then quoted *)
QuoteSegment(f) == <<BT>> \o ReplaceFirst(f, BT, <<"\\", BT>>) \o <<BT>>

RECURSIVE QuoteSegments(_)
QuoteSegments(segs) ==
  IF segs = <<>> THEN <<>> ELSE <<QuoteSegment(Head(segs))>> \o QuoteSegments(Tail(segs))

fieldRef_(field) == [fieldPath |-> JoinWith(QuoteSegments(SplitOn(field, ".", <<>>)), ".")]

MsgNotWithinField ==
  <<"'", " ", "n", "o", "t", " ", "w", "i", "t", "h", "i", "n", " ", "=", "=", ",", "=", "=", "=", ",", "!", "=", ",", "!", "=", "=", ",", "<", ",", "<", "=", ",", ">", ",", ">", "=", ",", "c", "o", "n", "t", "a", "i", "n", "s", ",", "c", "o", "n", "t", "a", "i", "n", "s", "a", "n", "y", ",", "i", "n", ",", "n", "o", "t", "i", "n", ",", "n", "o", "t", "-", "i", "n">>
MsgNotWithinUnary == <<"'", " ", "n", "o", "t", " ", "w", "i", "t", "h", "i", "n", " ", "n", "a", "n", ",", "n", "u", "l", "l">>
MsgOperatorQuote  == <<"O", "p", "e", "r", "a", "t", "o", "r", " ", "'">>

(* the result of a method of Query: the instance afterwards, the error     *)
(* raised and the value returned when it is not the instance               *)
QR(query, e, ret) == [q |-> query, err |-> e, ret |-> ret]

(* operator: the key looked up in the enums *)
fieldFilter_(field, operator, value) ==
  IF ~In(operator, FieldFilterOpKeys)
  THEN [err |-> Err(MsgOperatorQuote \o operator \o MsgNotWithinField, "filter"), ret |-> Undefined]
  ELSE [err |-> NoErr,
        ret |-> Def([field |-> fieldRef_(field), op |-> FieldFilterOps_(operator),
                     value |-> wrapValue(value)])]

unaryFilter_(operator, field) ==
  IF ~In(operator, UnaryFilterOpKeys)
  THEN [err |-> Err(MsgOperatorQuote \o operator \o MsgNotWithinUnary, "filter"), ret |-> Undefined]
  ELSE [err |-> NoErr,
        ret |-> Def([field |-> fieldRef_(field), op |-> UnaryFilterOps_(operator)])]

(* filter_() naming the operator 'nan' for every absent operator *)
filter__AlwaysNan(field, operator, value) ==
  LET op == IF operator.t = "string" THEN JsString(NormalizeOperator(operator.s))
            ELSE JsString(<<"n", "a", "n">>)
      key == JsToString(op)
  IN  IF In(key, FieldFilterOpKeys)
      THEN LET f == fieldFilter_(field, key, value)
           IN  [err |-> f.err,
                ret |-> IF Raised(f.err) THEN Undefined ELSE Def([fieldFilter |-> f.ret[1]])]
      ELSE IF In(key, UnaryFilterOpKeys)
      THEN LET f == unaryFilter_(key, field)
           IN  [err |-> f.err,
                ret |-> IF Raised(f.err) THEN Undefined ELSE Def([unaryFilter |-> f.ret[1]])]
      ELSE [err |-> Err(MsgInvalidOperator \o key, "filter"), ret |-> Undefined]

filter_(field, operator, value) ==
  LET op == IF operator.t = "string" THEN JsString(NormalizeOperator(operator.s))
            ELSE IF IsNullish(value) THEN JsString(<<"n", "u", "l", "l">>)
            ELSE IF isNumberNaN(value) THEN JsString(<<"n", "a", "n">>)
            ELSE operator
      key == JsToString(op)
  IN  IF In(key, FieldFilterOpKeys)
      THEN LET f == fieldFilter_(field, key, value)
           IN  [err |-> f.err,
                ret |-> IF Raised(f.err) THEN Undefined ELSE Def([fieldFilter |-> f.ret[1]])]
      ELSE IF In(key, UnaryFilterOpKeys)
      THEN LET f == unaryFilter_(key, field)
           IN  [err |-> f.err,
                ret |-> IF Raised(f.err) THEN Undefined ELSE Def([unaryFilter |-> f.ret[1]])]
      ELSE [err |-> Err(MsgInvalidOperator \o key, "filter"), ret |-> Undefined]

IsComposite(f) == "compositeFilter" \in DOMAIN f

And(filters) == [compositeFilter |-> [op |-> "AND", filters |-> filters]]
Or(filters)  == [compositeFilter |-> [op |-> "OR", filters |-> filters]]

(* compositeFilter.filters.push(f) *)
Push(root, f) ==
  [compositeFilter |-> [op |-> root.compositeFilter.op,
                        filters |-> Append(root.compositeFilter.filters, f)]]

(* Where() appending to the root as it is, never wrapping it *)
Where_NoWrap(query, field, operator, value) ==
  LET f == filter_(field, operator, value)
  IN  IF IsDef(query.where) /\ IsComposite(query.where[1])
      THEN IF Raised(f.err) THEN QR(query, f.err, Undefined)
           ELSE QR([query EXCEPT !.where = Def(Push(query.where[1], f.ret[1]))], NoErr, Undefined)
      ELSE IF Raised(f.err) THEN QR(query, f.err, Undefined)
           ELSE QR([query EXCEPT !.where = Def(f.ret[1])], NoErr, Undefined)

(* The root is wrapped before filter_ is evaluated: when filter_ raises the *)
(* wrapper stays                                                            *)
Where(query, field, operator, value) ==
  LET f == filter_(field, operator, value)
  IN  IF IsDef(query.where)
      THEN LET root == IF ~IsComposite(query.where[1]) THEN And(<<query.where[1]>>)
                       ELSE query.where[1]
           IN  IF Raised(f.err) THEN QR([query EXCEPT !.where = Def(root)], f.err, Undefined)
               ELSE QR([query EXCEPT !.where = Def(Push(root, f.ret[1]))], NoErr, Undefined)
      ELSE IF Raised(f.err) THEN QR(query, f.err, Undefined)
           ELSE QR([query EXCEPT !.where = Def(f.ret[1])], NoErr, Undefined)

MsgOrNeedsTwo == <<"O", "R", " ", "f", "i", "l", "t", "e", "r", " ", "r", "e", "q", "u", "i", "r", "e", "s", " ", "a", "t", " ", "l", "e", "a", "s", "t", " ", "2", " ", "f", "i", "l", "t", "e", "r", "s">>

(* WhereOr() appending the OR composite to whatever composite is the root *)
WhereOr_PushAny(query, filters) ==
  IF Len(filters) < 2 THEN QR(query, Err(MsgOrNeedsTwo, "WhereOr"), Undefined)
  ELSE
    LET orFilter == Or(filters)
    IN  IF IsDef(query.where)
        THEN IF ~IsComposite(query.where[1])
             THEN QR([query EXCEPT !.where = Def(And(<<query.where[1], orFilter>>))],
                     NoErr, Undefined)
             ELSE QR([query EXCEPT !.where = Def(Push(query.where[1], orFilter))],
                     NoErr, Undefined)
        ELSE QR([query EXCEPT !.where = Def(orFilter)], NoErr, Undefined)

WhereOr(query, filters) ==
  IF Len(filters) < 2 THEN QR(query, Err(MsgOrNeedsTwo, "WhereOr"), Undefined)
  ELSE
    LET orFilter == Or(filters)
    IN  IF IsDef(query.where)
        THEN IF ~IsComposite(query.where[1]) \/ query.where[1].compositeFilter.op # "AND"
             THEN QR([query EXCEPT !.where = Def(And(<<query.where[1], orFilter>>))],
                     NoErr, Undefined)
             ELSE QR([query EXCEPT !.where = Def(Push(query.where[1], orFilter))],
                     NoErr, Undefined)
        ELSE QR([query EXCEPT !.where = Def(orFilter)], NoErr, Undefined)

(* Query.createFilter: filter_ on a temporary query *)
createFilter(field, operator, value) == filter_(field, operator, value)

MsgOffsetNotNumber == <<"O", "f", "f", "s", "e", "t", " ", "i", "s", " ", "n", "o", "t", " ", "a", " ", "v", "a", "l", "i", "d", " ", "n", "u", "m", "b", "e", "r", "!">>
MsgOffsetNegative  == <<"O", "f", "f", "s", "e", "t", " ", "m", "u", "s", "t", " ", "b", "e", " ", ">", "=", " ", "0", "!">>
MsgLimitNotNumber  == <<"L", "i", "m", "i", "t", " ", "i", "s", " ", "n", "o", "t", " ", "a", " ", "v", "a", "l", "i", "d", " ", "n", "u", "m", "b", "e", "r", "!">>
MsgLimitNegative   == <<"L", "i", "m", "i", "t", " ", "m", "u", "s", "t", " ", "b", "e", " ", ">", "=", " ", "0", "!">>
MsgStartNotNumber  == <<"R", "a", "n", "g", "e", " ", "s", "t", "a", "r", "t", " ", "i", "s", " ", "n", "o", "t", " ", "a", " ", "v", "a", "l", "i", "d", " ", "n", "u", "m", "b", "e", "r", "!">>
MsgEndNotNumber    == <<"R", "a", "n", "g", "e", " ", "e", "n", "d", " ", "i", "s", " ", "n", "o", "t", " ", "a", " ", "v", "a", "l", "i", "d", " ", "n", "u", "m", "b", "e", "r", "!">>
MsgStartNegative   == <<"R", "a", "n", "g", "e", " ", "s", "t", "a", "r", "t", " ", "m", "u", "s", "t", " ", "b", "e", " ", ">", "=", " ", "0", "!">>
MsgEndNegative     == <<"R", "a", "n", "g", "e", " ", "e", "n", "d", " ", "m", "u", "s", "t", " ", "b", "e", " ", ">", "=", " ", "0", "!">>
MsgStartNotBelowEnd == <<"R", "a", "n", "g", "e", " ", "s", "t", "a", "r", "t", " ", "m", "u", "s", "t", " ", "b", "e", " ", "l", "e", "s", "s", " ", "t", "h", "a", "n", " ", "r", "a", "n", "g", "e", " ", "e", "n", "d", "!">>

Offset(query, offset) ==
  IF ~isNumeric(offset) THEN QR(query, Err(MsgOffsetNotNumber, "Offset"), Undefined)
  ELSE IF offset.n < 0 THEN QR(query, Err(MsgOffsetNegative, "Offset"), Undefined)
  ELSE QR([query EXCEPT !.offset = Def(offset.n)], NoErr, Undefined)

Limit(query, limit) ==
  IF ~isNumeric(limit) THEN QR(query, Err(MsgLimitNotNumber, "Limit"), Undefined)
  ELSE IF limit.n < 0 THEN QR(query, Err(MsgLimitNegative, "Limit"), Undefined)
  ELSE QR([query EXCEPT !.limit = Def(limit.n)], NoErr, Undefined)

(* Range() without the comparison of start with end *)
Range_Unordered(query, start, end) ==
  IF ~isNumeric(start) THEN QR(query, Err(MsgStartNotNumber, "Range"), Undefined)
  ELSE IF ~isNumeric(end) THEN QR(query, Err(MsgEndNotNumber, "Range"), Undefined)
  ELSE IF start.n < 0 THEN QR(query, Err(MsgStartNegative, "Range"), Undefined)
  ELSE IF end.n < 0 THEN QR(query, Err(MsgEndNegative, "Range"), Undefined)
  ELSE QR([query EXCEPT !.offset = Def(start.n), !.limit = Def(end.n - start.n)],
          NoErr, Undefined)

Range(query, start, end) ==
  IF ~isNumeric(start) THEN QR(query, Err(MsgStartNotNumber, "Range"), Undefined)
  ELSE IF ~isNumeric(end) THEN QR(query, Err(MsgEndNotNumber, "Range"), Undefined)
  ELSE IF start.n < 0 THEN QR(query, Err(MsgStartNegative, "Range"), Undefined)
  ELSE IF end.n < 0 THEN QR(query, Err(MsgEndNegative, "Range"), Undefined)
  ELSE IF start.n >= end.n THEN QR(query, Err(MsgStartNotBelowEnd, "Range"), Undefined)
  ELSE QR([query EXCEPT !.offset = Def(start.n), !.limit = Def(end.n - start.n)],
          NoErr, Undefined)

(* values.map(Document.wrapValue) *)
RECURSIVE wrapValues(_)
wrapValues(values) ==
  IF values = <<>> THEN <<>> ELSE <<wrapValue(Head(values))>> \o wrapValues(Tail(values))

(* StartAfter() recording the position as just before the values *)
StartAfter_Before(query, values) ==
  QR([query EXCEPT !.startAt = Def([values |-> wrapValues(values), before |-> TRUE])],
     NoErr, Undefined)

StartAfter(query, values) ==
  QR([query EXCEPT !.startAt = Def([values |-> wrapValues(values), before |-> FALSE])],
     NoErr, Undefined)

StartAt(query, values) ==
  QR([query EXCEPT !.startAt = Def([values |-> wrapValues(values), before |-> TRUE])],
     NoErr, Undefined)

EndBefore(query, values) ==
  QR([query EXCEPT !.endAt = Def([values |-> wrapValues(values), before |-> TRUE])],
     NoErr, Undefined)

EndAt(query, values) ==
  QR([query EXCEPT !.endAt = Def([values |-> wrapValues(values), before |-> FALSE])],
     NoErr, Undefined)

(* collections: a string s, or an array a of strings *)
CollectionsArray(collections) == IF collections.isArray THEN collections.a ELSE <<collections.s>>

(* this.from.some(selector => selector.collectionId === collectionId) *)
HasCollection(from, collectionId) == \E i \in 1..Len(from) : from[i].collectionId = collectionId

(* the loop of addCollections pushing every collection, present or not *)
RECURSIVE AddEach_NoCheck(_, _, _)
AddEach_NoCheck(from, ids, asCollectionGroup) ==
  IF ids = <<>> THEN from
  ELSE AddEach_NoCheck(Append(from, [collectionId |-> Head(ids),
                                     allDescendants |-> asCollectionGroup]),
                       Tail(ids), asCollectionGroup)

(* for (const collectionId of collectionsArray) *)
RECURSIVE AddEach(_, _, _)
AddEach(from, ids, asCollectionGroup) ==
  IF ids = <<>> THEN from
  ELSE AddEach(IF HasCollection(from, Head(ids)) THEN from
               ELSE Append(from, [collectionId |-> Head(ids),
                                  allDescendants |-> asCollectionGroup]),
               Tail(ids), asCollectionGroup)

addCollections(query, collections, asCollectionGroup) ==
  LET from == IF IsDef(query.from) THEN query.from[1] ELSE <<>>
  IN  QR([query EXCEPT !.from = Def(AddEach(from, CollectionsArray(collections),
                                            asCollectionGroup))],
         NoErr, Undefined)

addCollectionGroups(query, collections) == addCollections(query, collections, TRUE)

removeCollections(query, collections) ==
  IF ~IsDef(query.from) THEN QR(query, NoErr, Undefined)
  ELSE LET ids == CollectionsArray(collections)
           Kept(selector) == \A i \in 1..Len(ids) : ids[i] # selector.collectionId
       IN  QR([query EXCEPT !.from = Def(SelectSeq(query.from[1], Kept))], NoErr, Undefined)

(* this.from.map(selector => selector.collectionId).filter(Boolean) *)
getCollections(query) ==
  LET from == IF IsDef(query.from) THEN query.from[1] ELSE <<>>
      ids  == [i \in 1..Len(from) |-> from[i].collectionId]
  IN  QR(query, NoErr, Def(SelectSeq(ids, NonEmpty)))

----------------------------------------------------------------------------
(* AggregateQuery *)

MsgNoAggregation == <<"A", "t", " ", "l", "e", "a", "s", "t", " ", "o", "n", "e", " ", "a", "g", "g", "r", "e", "g", "a", "t", "i", "o", "n", " ", "m", "u", "s", "t", " ", "b", "e", " ", "s", "p", "e", "c", "i", "f", "i", "e", "d">>
MsgTooManyAggregations == <<"M", "a", "x", "i", "m", "u", "m", " ", "5", " ", "a", "g", "g", "r", "e", "g", "a", "t", "i", "o", "n", "s", " ", "p", "e", "r", " ", "q", "u", "e", "r", "y">>

(* the result of a method of AggregateQuery: the instance afterwards, the  *)
(* error raised, the value returned, how many times the callback was       *)
(* invoked and what the callback answered                                   *)
AR(a, e, ret, callbacks, answer) ==
  [aq |-> a, err |-> e, ret |-> ret, callbacks |-> callbacks, answer |-> answer]

PushAggregation(a, aggregation) ==
  AR([a EXCEPT !.aggregations = Append(@, aggregation)], NoErr, Undefined, 0, Undefined)

(* alias || fallback *)
AliasOr(alias, fallback) == IF Truthy(alias) THEN alias[1] ELSE fallback

(* upTo ? { upTo } : {} *)
UpTo(upTo) == IF IsDef(upTo) /\ upTo[1] # 0 THEN [upTo |-> upTo] ELSE [upTo |-> Undefined]

count(a, alias, upTo) ==
  PushAggregation(a, [alias |-> AliasOr(alias, <<"c", "o", "u", "n", "t">>), count |-> UpTo(upTo)])

sum(a, field, alias) ==
  PushAggregation(a, [alias |-> AliasOr(alias, <<"s", "u", "m", "_">> \o field), sum |-> [field |-> fieldRef_(field)]])

avg(a, field, alias) ==
  PushAggregation(a, [alias |-> AliasOr(alias, <<"a", "v", "g", "_">> \o field), avg |-> [field |-> fieldRef_(field)]])

(* get() without the upper limit *)
get_NoMaximum(a, answer) ==
  IF Len(a.aggregations) = 0
  THEN AR(a, Err(MsgNoAggregation, "get"), Undefined, 0, Undefined)
  ELSE AR(a, answer.err, answer.ret, 1, Def(answer))

(* answer: what this.callback(this) does, a value returned or an error     *)
(* thrown                                                                   *)
get(a, answer) ==
  IF Len(a.aggregations) = 0
  THEN AR(a, Err(MsgNoAggregation, "get"), Undefined, 0, Undefined)
  ELSE IF Len(a.aggregations) > 5
  THEN AR(a, Err(MsgTooManyAggregations, "get"), Undefined, 0, Undefined)
  ELSE AR(a, answer.err, answer.ret, 1, Def(answer))

----------------------------------------------------------------------------
(* ValueCodec: native values and the tagged wire Value *)

JsBoolean(b) == [t |-> "boolean", b |-> b]

(* A finite number up to 2^53 in magnitude, held as a sign, its integer    *)
(* part in two decimal limbs (hi * 10^8 + lo with 0 <= lo < 10^8) and the  *)
(* digits after the decimal point: none for an integer-valued number.      *)
LimbDigits == 8
Limb == 10 ^ LimbDigits

JsDecimal(neg, hi, lo, frac) ==
  [t |-> "number", neg |-> neg, hi |-> hi, lo |-> lo, frac |-> frac]

JsInteger(neg, hi, lo) == JsDecimal(neg, hi, lo, <<>>)

(* a Date: the day counted from 1970-01-01 and the millisecond of that day *)
JsDate(day, ms) == [t |-> "date", day |-> day, ms |-> ms]

JsArray(items) == [t |-> "array", items |-> items]

(* a plain object: its keys in insertion order and their values *)
JsObject(keys, values) == [t |-> "object", keys |-> keys, values |-> values]

RECURSIVE Zeros(_)
Zeros(n) == IF n <= 0 THEN <<>> ELSE <<"0">> \o Zeros(n - 1)

(* n in decimal, zero-padded to width digits *)
Pad(n, width) == Zeros(width - Len(NatToString(n))) \o NatToString(n)

(* the decimal digits of the magnitude *)
Magnitude(hi, lo) ==
  IF hi = 0 THEN NatToString(lo) ELSE NatToString(hi) \o Pad(lo, LimbDigits)

(* integer -> its decimal string *)
wrapInt(v) ==
  [integerValue |-> IF v.neg THEN <<"-">> \o Magnitude(v.hi, v.lo) ELSE Magnitude(v.hi, v.lo)]

KeyLatitude  == <<"l", "a", "t", "i", "t", "u", "d", "e">>
KeyLongitude == <<"l", "o", "n", "g", "i", "t", "u", "d", "e">>

(* the reference-path pattern: the path of a document under the base path  *)
(* projects/<id>/databases/<id>/documents/                                 *)
IsReferencePath(s) ==
  LET segs == SplitOn(s, "/", <<>>)
  IN  /\ Len(segs) >= 7
      /\ segs[1] = <<"p", "r", "o", "j", "e", "c", "t", "s">> /\ segs[2] # <<>>
      /\ segs[3] = <<"d", "a", "t", "a", "b", "a", "s", "e", "s">> /\ segs[4] # <<>>
      /\ segs[5] = <<"d", "o", "c", "u", "m", "e", "n", "t", "s">>
      /\ segs[6] # <<>> /\ segs[Len(segs)] # <<>>

(* Date.toISOString(): YYYY-MM-DDTHH:mm:ss.sssZ, for the years 0000 to 9999 *)
toISOString(v) ==
  LET z   == v.day + 719468
      era == z \div 146097
      doe == z - era * 146097
      yoe == (doe - doe \div 1460 + doe \div 36524 - doe \div 146096) \div 365
      doy == doe - (365 * yoe + yoe \div 4 - yoe \div 100)
      mp  == (5 * doy + 2) \div 153
      d   == doy - (153 * mp + 2) \div 5 + 1
      m   == IF mp < 10 THEN mp + 3 ELSE mp - 9
      y   == yoe + era * 400 + (IF m <= 2 THEN 1 ELSE 0)
  IN  Pad(y, 4) \o <<"-">> \o Pad(m, 2) \o <<"-">> \o Pad(d, 2) \o <<"T">>
        \o Pad(v.ms \div 3600000, 2) \o <<":">> \o Pad((v.ms \div 60000) % 60, 2) \o <<":">>
        \o Pad((v.ms \div 1000) % 60, 2) \o <<".">> \o Pad(v.ms % 1000, 3) \o <<"Z">>

(* wrap(v) *)
RECURSIVE wrap(_)
wrap(v) ==
  CASE v.t \in {"null", "undefined"} -> [nullValue |-> "NULL_VALUE"]
    [] v.t = "boolean" -> [booleanValue |-> v.b]
    [] v.t = "number"  -> IF v.frac = <<>> THEN wrapInt(v) ELSE [doubleValue |-> v]
    [] v.t = "string"  ->
         IF IsReferencePath(v.s) THEN [referenceValue |-> v.s] ELSE [stringValue |-> v.s]
    [] v.t = "date"    -> [timestampValue |-> toISOString(v)]
    [] v.t = "array"   ->
         [arrayValue |-> [values |-> [i \in 1..Len(v.items) |-> wrap(v.items[i])]]]
    [] v.t = "object"  ->
         IF Len(v.keys) = 2 /\ {v.keys[1], v.keys[2]} = {KeyLatitude, KeyLongitude}
         THEN LET at(k) == v.values[CHOOSE i \in 1..2 : v.keys[i] = k]
              IN  [geoPointValue |-> [latitude |-> at(KeyLatitude), longitude |-> at(KeyLongitude)]]
         ELSE [mapValue |-> [keys |-> v.keys,
                             values |-> [i \in 1..Len(v.values) |-> wrap(v.values[i])]]]

DigitValue(c) == CHOOSE d \in 0..9 : Digit(d) = c

RECURSIVE ParseNat(_)
ParseNat(digits) ==
  IF digits = <<>> THEN 0
  ELSE 10 * ParseNat(SubSeq(digits, 1, Len(digits) - 1)) + DigitValue(digits[Len(digits)])

(* unwrapInt() that forgets the sign *)
unwrapInt_Unsigned(s) ==
  LET digits == IF s # <<>> /\ s[1] = "-" THEN Tail(s) ELSE s
      cut    == IF Len(digits) > LimbDigits THEN Len(digits) - LimbDigits ELSE 0
  IN  JsInteger(FALSE, ParseNat(SubSeq(digits, 1, cut)),
                ParseNat(SubSeq(digits, cut + 1, Len(digits))))

(* the decimal string of an integerValue -> the number *)
unwrapInt(s) ==
  LET neg    == s # <<>> /\ s[1] = "-"
      digits == IF neg THEN Tail(s) ELSE s
      cut    == IF Len(digits) > LimbDigits THEN Len(digits) - LimbDigits ELSE 0
  IN  JsInteger(neg, ParseNat(SubSeq(digits, 1, cut)),
                ParseNat(SubSeq(digits, cut + 1, Len(digits))))

(* the text of a timestampValue, YYYY-MM-DDTHH:mm:ss.sssZ -> the Date *)
unwrapDate(s) ==
  LET num(i, j) == ParseNat(SubSeq(s, i, j))
      m   == num(6, 7)
      y   == num(1, 4) - (IF m <= 2 THEN 1 ELSE 0)
      era == y \div 400
      yoe == y - era * 400
      doy == (153 * (IF m > 2 THEN m - 3 ELSE m + 9) + 2) \div 5 + num(9, 10) - 1
      doe == yoe * 365 + yoe \div 4 - yoe \div 100 + doy
  IN  JsDate(era * 146097 + doe - 719468,
             num(12, 13) * 3600000 + num(15, 16) * 60000 + num(18, 19) * 1000 + num(21, 23))

(* unwrap(Value) *)
RECURSIVE unwrap(_)
unwrap(w) ==
  CASE "nullValue" \in DOMAIN w      -> JsNull
    [] "booleanValue" \in DOMAIN w   -> JsBoolean(w.booleanValue)
    [] "integerValue" \in DOMAIN w   -> unwrapInt(w.integerValue)
    [] "doubleValue" \in DOMAIN w    -> w.doubleValue
    [] "stringValue" \in DOMAIN w    -> JsString(w.stringValue)
    [] "referenceValue" \in DOMAIN w -> JsString(w.referenceValue)
    [] "timestampValue" \in DOMAIN w -> unwrapDate(w.timestampValue)
    [] "geoPointValue" \in DOMAIN w  ->
         JsObject(<<KeyLatitude, KeyLongitude>>,
                  <<w.geoPointValue.latitude, w.geoPointValue.longitude>>)
    [] "arrayValue" \in DOMAIN w     ->
         JsArray([i \in 1..Len(w.arrayValue.values) |-> unwrap(w.arrayValue.values[i])])
    [] "mapValue" \in DOMAIN w       ->
         JsObject(w.mapValue.keys,
                  [i \in 1..Len(w.mapValue.values) |-> unwrap(w.mapValue.values[i])])

----------------------------------------------------------------------------
(* A Query built by hand: filters, and paging *)

MaxChildren == 3   \* filters directly under the root of the query
MaxIndex    == 5   \* largest number handed to Offset, Limit and Range

FieldX == <<"x">>

(* operators: three spellings of the binary set, one unknown word, a name  *)
(* every object inherits, and the operator left out as null, undefined or  *)
(* NaN                                                                     *)
OperatorArgs ==
  { JsString(<<"=", "=">>), JsString(<<"c", "o", "n", "s", "t", "r", "u", "c", "t", "o", "r">>), JsString(<<"N", "O", "T", "_", "I", "N">>), JsString(<<"A", "r", "r", "a", "y", "-", "C", "o", "n", "t", "a", "i", "n", "s">>),
    JsString(<<"l", "i", "k", "e">>), JsNull, JsUndefined, JsNaN }

ValueArgs == {JsUndefined, JsNull, JsNaN, JsNumber(5)}

FilterEq5   == createFilter(FieldX, JsString(<<"=", "=">>), JsNumber(5)).ret[1]
FilterNull  == createFilter(FieldX, JsNull, JsUndefined).ret[1]
FilterNotIn == createFilter(FieldX, JsString(<<"n", "o", "t", "-", "i", "n">>), JsNumber(5)).ret[1]

OrArgs == {<<>>, <<FilterEq5>>, <<FilterEq5, FilterNull>>, <<FilterNull, FilterNotIn, FilterEq5>>}

NumberArgs ==
  {JsUndefined, JsNaN, JsString(<<"x">>)} \cup {JsNumber(n) : n \in -1..MaxIndex}

QTrack(h, op, args, r) ==
  IF op = "Where" /\ ~Raised(r.err)
  THEN [h EXCEPT !.wheres = Append(@, createFilter(FieldX, args[1], args[2]).ret[1])]
  ELSE [h EXCEPT !.onlyWhere = FALSE]

QCall(op, args, filters, r) ==
  /\ q' = r.q
  /\ qCall' = [op |-> op, args |-> args, filters |-> filters, err |-> r.err, ret |-> r.ret]
  /\ qHist' = QTrack(qHist, op, args, r)

(* the filters directly under the root *)
Children(query) ==
  IF ~IsDef(query.where) THEN <<>>
  ELSE IF IsComposite(query.where[1]) THEN query.where[1].compositeFilter.filters
  ELSE <<query.where[1]>>

CanFilter == Len(Children(q)) < MaxChildren

QWhere ==
  /\ CanFilter
  /\ \E operator \in OperatorArgs, value \in ValueArgs :
       QCall("Where", <<operator, value>>, <<>>, Where(q, FieldX, operator, value))
  /\ UNCHANGED <<txVars, runVars, clsVars, wbVars, aqVars, codec>>

QWhereOr ==
  /\ CanFilter
  /\ \E filters \in OrArgs : QCall("WhereOr", <<>>, filters, WhereOr(q, filters))
  /\ UNCHANGED <<txVars, runVars, clsVars, wbVars, aqVars, codec>>

(* Query.createFilter is static: the instance is not involved *)
QCreateFilter ==
  /\ q = NewQuery
  /\ \E operator \in OperatorArgs, value \in ValueArgs :
       LET r == createFilter(FieldX, operator, value)
       IN  QCall("createFilter", <<operator, value>>, <<>>, QR(q, r.err, r.ret))
  /\ UNCHANGED <<txVars, runVars, clsVars, wbVars, aqVars, codec>>

QOffset ==
  /\ \E offset \in NumberArgs : QCall("Offset", <<offset>>, <<>>, Offset(q, offset))
  /\ UNCHANGED <<txVars, runVars, clsVars, wbVars, aqVars, codec>>

QLimit ==
  /\ \E limit \in NumberArgs : QCall("Limit", <<limit>>, <<>>, Limit(q, limit))
  /\ UNCHANGED <<txVars, runVars, clsVars, wbVars, aqVars, codec>>

QRange ==
  /\ \E start \in NumberArgs, end \in NumberArgs :
       QCall("Range", <<start, end>>, <<>>, Range(q, start, end))
  /\ UNCHANGED <<txVars, runVars, clsVars, wbVars, aqVars, codec>>

InitQuery ==
  QueryIdle /\ AggregateIdle /\ CodecIdle /\ tx = NewTransaction /\ lastCall = NoCall /\ utilities \in Hosts /\ RunIdle /\ ClsIdle /\ WbIdle

NextQuery == QWhere \/ QWhereOr \/ QCreateFilter

SpecQuery == InitQuery /\ [][NextQuery]_vars

NextPaging == QOffset \/ QLimit \/ QRange

SpecPaging == InitQuery /\ [][NextPaging]_vars

(* cursors: none, one or two values *)
CursorArgs ==
  { <<>>, <<JsNumber(5)>>, <<JsNull>>, <<JsString(<<"k">>), JsNumber(5)>>,
    <<JsNumber(5), JsString(<<"k">>)>> }

QStartAfter ==
  /\ \E values \in CursorArgs : QCall("StartAfter", values, <<>>, StartAfter(q, values))
  /\ UNCHANGED <<txVars, runVars, clsVars, wbVars, aqVars, codec>>

QStartAt ==
  /\ \E values \in CursorArgs : QCall("StartAt", values, <<>>, StartAt(q, values))
  /\ UNCHANGED <<txVars, runVars, clsVars, wbVars, aqVars, codec>>

QEndBefore ==
  /\ \E values \in CursorArgs : QCall("EndBefore", values, <<>>, EndBefore(q, values))
  /\ UNCHANGED <<txVars, runVars, clsVars, wbVars, aqVars, codec>>

QEndAt ==
  /\ \E values \in CursorArgs : QCall("EndAt", values, <<>>, EndAt(q, values))
  /\ UNCHANGED <<txVars, runVars, clsVars, wbVars, aqVars, codec>>

NextCursor == QStartAfter \/ QStartAt \/ QEndBefore \/ QEndAt

SpecCursor == InitQuery /\ [][NextCursor]_vars

(* collections: one id as a string, or an array of ids, possibly empty, with *)
(* an id twice, or naming the collection the query was built on              *)
OneCollection(id)  == [isArray |-> FALSE, s |-> id, a |-> <<>>]
Collections(ids)   == [isArray |-> TRUE, s |-> <<>>, a |-> ids]

CollectionArgs ==
  { OneCollection(<<"a">>), Collections(<<>>), Collections(<< <<"a">>, <<"b">> >>),
    Collections(<< <<"b">>, <<"b">> >>), Collections(<< <<"c">>, <<"a">> >>) }

QAddCollections ==
  /\ \E collections \in CollectionArgs, asCollectionGroup \in BOOLEAN :
       QCall("addCollections", <<collections>>, <<>>,
             addCollections(q, collections, asCollectionGroup))
  /\ UNCHANGED <<txVars, runVars, clsVars, wbVars, aqVars, codec>>

QAddCollectionGroups ==
  /\ \E collections \in CollectionArgs :
       QCall("addCollectionGroups", <<collections>>, <<>>, addCollectionGroups(q, collections))
  /\ UNCHANGED <<txVars, runVars, clsVars, wbVars, aqVars, codec>>

QRemoveCollections ==
  /\ \E collections \in CollectionArgs :
       QCall("removeCollections", <<collections>>, <<>>, removeCollections(q, collections))
  /\ UNCHANGED <<txVars, runVars, clsVars, wbVars, aqVars, codec>>

QGetCollections ==
  /\ QCall("getCollections", <<>>, <<>>, getCollections(q))
  /\ UNCHANGED <<txVars, runVars, clsVars, wbVars, aqVars, codec>>

NextFrom == QAddCollections \/ QAddCollectionGroups \/ QRemoveCollections \/ QGetCollections

SpecFrom == InitQuery /\ [][NextFrom]_vars

(* fieldRef_ applied to field paths made of a letter, the quote character   *)
(* and the separator                                                        *)
MaxPath == 4

PathChars == {"a", BT, "."}

RECURSIVE Paths(_)
Paths(n) ==
  IF n = 0 THEN {<<>>}
  ELSE LET shorter == Paths(n - 1)
       IN  shorter \cup {Append(p, c) : p \in {s \in shorter : Len(s) = n - 1}, c \in PathChars}

QFieldRef ==
  /\ \E field \in Paths(MaxPath) \ {<<>>} :
       QCall("fieldRef_", <<field>>, <<>>, QR(q, NoErr, Def(fieldRef_(field))))
  /\ UNCHANGED <<txVars, runVars, clsVars, wbVars, aqVars, codec>>

NextFieldRef == QFieldRef

SpecFieldRef == InitQuery /\ [][NextFieldRef]_vars

(* An AggregateQuery built by hand: count, sum and avg in any order, and    *)
(* get whenever the caller likes                                            *)
MaxAggregations == 6

AliasN == <<"n">>

CountArgs == {<<Undefined, Undefined>>, <<Def(<<>>), Def(0)>>, <<Def(AliasN), Def(3)>>}

(* the callback answers with a result or throws *)
CallbackAnswers ==
  { [err |-> NoErr, ret |-> Def(<<"r">>)],
    [err |-> Err(MsgUnknownError, "callback"), ret |-> Undefined] }

AqCall(op, r) ==
  /\ aq' = r.aq
  /\ aqCall' = [op |-> op, err |-> r.err, ret |-> r.ret, callbacks |-> r.callbacks,
                answer |-> r.answer]

CanAggregate == Len(aq.aggregations) < MaxAggregations

AqCount ==
  /\ CanAggregate
  /\ \E args \in CountArgs : AqCall("count", count(aq, args[1], args[2]))
  /\ UNCHANGED <<txVars, runVars, clsVars, wbVars, qVars, codec>>

AqSum ==
  /\ CanAggregate
  /\ AqCall("sum", sum(aq, FieldX, Undefined))
  /\ UNCHANGED <<txVars, runVars, clsVars, wbVars, qVars, codec>>

AqAvg ==
  /\ CanAggregate
  /\ AqCall("avg", avg(aq, FieldX, Def(AliasN)))
  /\ UNCHANGED <<txVars, runVars, clsVars, wbVars, qVars, codec>>

AqGet ==
  /\ \E answer \in CallbackAnswers : AqCall("get", get(aq, answer))
  /\ UNCHANGED <<txVars, runVars, clsVars, wbVars, qVars, codec>>

NextAggregate == AqCount \/ AqSum \/ AqAvg \/ AqGet

SpecAggregate == InitQuery /\ [][NextAggregate]_vars

(* A value sent through the codec: wrapped for the wire, then unwrapped     *)
MaxDepth == 2

(* 2^53 = 90071992 * 10^8 + 54740992 *)
SafeIntegers ==
  { JsInteger(FALSE, 0, 0), JsInteger(FALSE, 0, 7), JsInteger(TRUE, 0, 1),
    JsInteger(FALSE, 0, Limb - 1), JsInteger(FALSE, 1, 0), JsInteger(TRUE, 12, 34),
    JsInteger(FALSE, 90071992, 54740992), JsInteger(TRUE, 90071992, 54740992) }

(* numbers with a fraction: 29.9792, -0.5 and 31.1342 *)
Doubles ==
  { JsDecimal(FALSE, 0, 29, <<"9", "7", "9", "2">>), JsDecimal(TRUE, 0, 0, <<"5">>),
    JsDecimal(FALSE, 0, 31, <<"1", "3", "4", "2">>) }

(* 1970-01-01T00:00:00.000Z, 1969-12-31T00:00:00.001Z, the last            *)
(* millisecond of 2024-02-29 and the first of 2000-03-01                   *)
Dates == {JsDate(0, 0), JsDate(-1, 1), JsDate(19782, 86399999), JsDate(11017, 0)}

RefDocument == <<"p", "r", "o", "j", "e", "c", "t", "s", "/", "p", "/", "d", "a", "t", "a", "b", "a", "s", "e", "s", "/", "(", "d", "e", "f", "a", "u", "l", "t", ")", "/", "d", "o", "c", "u", "m", "e", "n", "t", "s", "/", "c", "/", "d">>
RefNoDocument == <<"p", "r", "o", "j", "e", "c", "t", "s", "/", "p", "/", "d", "a", "t", "a", "b", "a", "s", "e", "s", "/", "(", "d", "e", "f", "a", "u", "l", "t", ")", "/", "d", "o", "c", "u", "m", "e", "n", "t", "s", "/">>

(* strings, among them one that reads as an integer, one as a boolean, the *)
(* path of a document under a base path and a base path alone              *)
Strings ==
  { JsString(<<>>), JsString(<<"a">>), JsString(<<"-", "1", "2">>),
    JsString(<<"t", "r", "u", "e">>), JsString(RefDocument), JsString(RefNoDocument) }

(* objects with the keys of a geopoint in either order, holding numbers   *)
(* with a fraction or integers, and objects that miss the shape by a key  *)
GeoShaped ==
  { JsObject(<<KeyLatitude, KeyLongitude>>,
             <<JsDecimal(FALSE, 0, 29, <<"9", "7", "9", "2">>),
               JsDecimal(FALSE, 0, 31, <<"1", "3", "4", "2">>)>>),
    JsObject(<<KeyLongitude, KeyLatitude>>, <<JsInteger(TRUE, 0, 1), JsInteger(FALSE, 0, 7)>>),
    JsObject(<<KeyLatitude>>, <<JsInteger(FALSE, 0, 7)>>),
    JsObject(<<KeyLatitude, KeyLongitude, <<"k">>>>,
             <<JsInteger(FALSE, 0, 7), JsInteger(FALSE, 0, 7), JsNull>>) }

Scalars ==
  {JsNull, JsBoolean(TRUE), JsBoolean(FALSE)}
    \cup SafeIntegers \cup Doubles \cup Strings \cup Dates \cup GeoShaped

(* the second value of a two-element array or of a two-key map *)
Seconds == {JsNull, JsInteger(TRUE, 0, 1), JsString(RefDocument)}

KeyK == <<"k">>
KeyM == <<"m">>

(* the values nested at most d deep *)
RECURSIVE Natives(_)
Natives(d) ==
  IF d = 0 THEN Scalars
  ELSE LET inner == Natives(d - 1)
       IN  inner
             \cup {JsArray(<<>>), JsObject(<<>>, <<>>)}
             \cup {JsArray(<<a>>) : a \in inner}
             \cup {JsArray(<<b, a>>) : a \in inner, b \in Seconds}
             \cup {JsObject(<<KeyK>>, <<a>>) : a \in inner}
             \cup {JsObject(<<KeyM, KeyK>>, <<a, b>>) : a \in inner, b \in Seconds}

InitCodec ==
  /\ codec \in {[value |-> v, wire |-> Undefined, back |-> Undefined] : v \in Natives(MaxDepth)}
  /\ QueryIdle /\ AggregateIdle /\ tx = NewTransaction /\ lastCall = NoCall /\ utilities \in Hosts
  /\ RunIdle /\ ClsIdle /\ WbIdle

CodecWrap ==
  /\ ~IsDef(codec.wire)
  /\ codec' = [codec EXCEPT !.wire = Def(wrap(codec.value))]
  /\ UNCHANGED <<txVars, runVars, clsVars, wbVars, qVars, aqVars>>

CodecUnwrap ==
  /\ IsDef(codec.wire) /\ ~IsDef(codec.back)
  /\ codec' = [codec EXCEPT !.back = Def(unwrap(codec.wire[1]))]
  /\ UNCHANGED <<txVars, runVars, clsVars, wbVars, qVars, aqVars>>

NextCodec == CodecWrap \/ CodecUnwrap

SpecCodec == InitCodec /\ [][NextCodec]_vars

----------------------------------------------------------------------------
(* Firestore.runTransaction, one action per step of its loop.  The user    *)
(* function makes up to MaxFnOps calls on the transaction it receives and  *)
(* then returns a value or raises; an error raised by one of its calls     *)
(* leaves the function.                                                    *)

(* The driver's transaction after a call; lastCall belongs to the instance *)
(* driven by hand                                                          *)
Apply(r) == tx' = r.tx /\ UNCHANGED <<lastCall, utilities>>

(* the backoff without its cap *)
BackoffDelay_NoCap(n) == BaseDelayMs * 2 ^ n

BackoffDelay(n) == Min(BaseDelayMs * 2 ^ n, MaxDelayMs)

(* maxRetries arguments: omitted (the default applies), negative, zero, positive *)
RetryArgs == {Undefined} \cup {Def(n) : n \in {-1, 0, MaxRetryArg}}
Results   == {"r1", "r2"}
FnErrors  == {MsgAborted, MsgNotFound}

Returned(v) == Def([kind |-> "returned", value |-> v, err |-> NoErr])
Thrown(e)   == Def([kind |-> "thrown", value |-> Undefined, err |-> e])

NoHist ==
  [started |-> 0, fnCalls |-> 0, commitRpcs |-> 0, sleeps |-> <<>>,
   failedAt |-> {}]

NewAttempt ==
  [fnOps |-> 0, staged |-> <<>>, rawToken |-> Undefined, original |-> NoErr,
   fnReturn |-> Undefined,
   rollbacks |-> 0, rollbackErr |-> NoErr,
   commitPayload |-> Undefined, rollbackPayload |-> Undefined]

(* An error leaves the try block: remember it and where the attempt failed *)
Raise(e, stage, a, h) ==
  /\ caught' = e
  /\ pc' = "catch"
  /\ att' = [a EXCEPT !.original = e]
  /\ hist' = [h EXCEPT !.failedAt = @ \cup {stage}]

InitRun ==
  /\ tx = NewTransaction /\ lastCall = NoCall /\ utilities \in Hosts
  /\ pc = "loop" /\ attempt = 0 /\ lastError = NoErr
  /\ \E m \in RetryArgs : maxRetries = IF m = Undefined THEN DefaultMaxRetries ELSE m[1]
  /\ runOptions \in OptionsInputs
  /\ caught = NoErr /\ result = Undefined /\ outcome = Undefined
  /\ hist = NoHist /\ att = NewAttempt
  /\ ClsIdle /\ WbIdle /\ QueryIdle /\ AggregateIdle /\ CodecIdle

(* the loop reusing one Transaction instance for every attempt *)
RunLoop_ReuseInstance ==
  /\ pc = "loop" /\ attempt <= maxRetries
  /\ tx' = [tx EXCEPT !.isActive = FALSE]
  /\ UNCHANGED <<lastCall, utilities>>
  /\ att' = NewAttempt
  /\ result' = Undefined
  /\ caught' = NoErr
  /\ hist' = [hist EXCEPT !.started = @ + 1]
  /\ pc' = "begin"
  /\ UNCHANGED <<maxRetries, runOptions, attempt, lastError, outcome, clsVars, wbVars, qVars, aqVars, codec>>

(* for (attempt ...; attempt <= maxRetries; ...) { const transaction = this.transaction(); *)
RunLoop ==
  /\ pc = "loop" /\ attempt <= maxRetries
  /\ tx' = NewTransaction
  /\ UNCHANGED <<lastCall, utilities>>
  /\ att' = NewAttempt
  /\ result' = Undefined
  /\ caught' = NoErr
  /\ hist' = [hist EXCEPT !.started = @ + 1]
  /\ pc' = "begin"
  /\ UNCHANGED <<maxRetries, runOptions, attempt, lastError, outcome, clsVars, wbVars, qVars, aqVars, codec>>

(* transaction.begin(options) *)
RunBegin ==
  /\ pc = "begin"
  /\ \E resp \in BeginResponses :
       LET r == TxBegin(tx, runOptions, resp)
       IN  /\ Apply(r)
           /\ IF Raised(r.err)
              THEN Raise(r.err, "begin", att, hist)
              ELSE /\ pc' = "fn"
                   /\ att' = [att EXCEPT !.rawToken = resp.body]
                   /\ hist' = [hist EXCEPT !.fnCalls = @ + 1]
                   /\ caught' = caught
  /\ UNCHANGED <<maxRetries, runOptions, attempt, lastError, result, outcome, clsVars, wbVars, qVars, aqVars, codec>>

(* updateFunction(transaction): one call made by the function *)
FnCall(r, a) ==
  /\ Apply(r)
  /\ IF Raised(r.err)
     THEN Raise(r.err, "fn", a, hist)
     ELSE /\ att' = [a EXCEPT !.fnOps = @ + 1]
          /\ UNCHANGED <<pc, caught, hist>>
  /\ UNCHANGED <<maxRetries, runOptions, attempt, lastError, result, outcome, clsVars, wbVars, qVars, aqVars, codec>>

FnStage ==
  /\ pc = "fn" /\ att.fnOps < MaxFnOps
  /\ \E w \in {"set", "delete", "create"} :
       LET r == CASE w = "set"    -> TxSet(tx, DocPath, <<FieldA>>, FALSE)
                  [] w = "delete" -> TxDelete(tx, DocPath)
                  [] w = "create" -> TxCreate(tx, ColPath, <<FieldA>>)
       IN  FnCall(r, [att EXCEPT !.staged = IF r.tx.writes = tx.writes THEN @
                                                ELSE Append(@, r.tx.writes[Len(r.tx.writes)])])

FnRead ==
  /\ pc = "fn" /\ att.fnOps < MaxFnOps
  /\ \E resp \in GetResponses : FnCall(TxGet(tx, DocPath, resp), att)

FnCommit ==
  /\ pc = "fn" /\ att.fnOps < MaxFnOps
  /\ \E resp \in CommitResponses(tx) :
       LET r == TxCommit(tx, resp)
       IN  FnCall(r, [att EXCEPT !.commitPayload =
                                   IF r.rpcs = <<>> THEN @ ELSE Def(r.rpcs[1].payload)])

FnRollback ==
  /\ pc = "fn" /\ att.fnOps < MaxFnOps
  /\ \E resp \in RollbackResponses : FnCall(TxRollback(tx, resp), att)

(* operators a caller may hand to Where inside the function: known ones, *)
(* a name every object inherits, and unknown ones, one of them spelling  *)
(* a retryable keyword                                                    *)
OperatorInputs ==
  { <<"=", "=">>, <<"N", "O", "T", "_", "I", "N">>, <<"l", "i", "k", "e">>,
    <<"c", "o", "n", "s", "t", "r", "u", "c", "t", "o", "r">>,
    <<"C", "o", "n", "f", "l", "i", "c", "t">> }

(* the function builds a query filter: query.Where(field, operator, value) *)
FnFilter ==
  /\ pc = "fn" /\ att.fnOps < MaxFnOps
  /\ \E operator \in OperatorInputs :
       FnCall(R(tx, FilterError(operator), <<>>, Undefined), att)

(* the function calls update(path, {}, true): the mask has no field *)
FnUpdateNoFields ==
  /\ pc = "fn" /\ att.fnOps < MaxFnOps
  /\ FnCall(TxUpdate(tx, DocPath, <<>>, [t |-> "boolean", b |-> TRUE, a |-> <<>>, s |-> <<>>]),
            att)

FnReturn ==
  /\ pc = "fn"
  /\ \E v \in Results :
       /\ result' = Def(v)
       /\ att' = [att EXCEPT !.fnReturn = Def(v)]
  /\ pc' = "commit"
  /\ UNCHANGED <<txVars, maxRetries, runOptions, attempt, lastError, caught, outcome, hist, clsVars, wbVars, qVars, aqVars, codec>>

FnThrow ==
  /\ pc = "fn"
  /\ \E m \in FnErrors : Raise(Err(m, "fn"), "fn", att, hist)
  /\ UNCHANGED <<txVars, maxRetries, runOptions, attempt, lastError, result, outcome, clsVars, wbVars, qVars, aqVars, codec>>

(* the driver returning nothing instead of the function's result *)
RunCommit_DropsResult ==
  /\ pc = "commit"
  /\ \E resp \in CommitResponses(tx) :
       LET r == TxCommit(tx, resp)
           a == [att EXCEPT !.commitPayload =
                              IF r.rpcs = <<>> THEN @ ELSE Def(r.rpcs[1].payload)]
       IN  /\ Apply(r)
           /\ IF Raised(r.err)
              THEN /\ Raise(r.err, "commit", a,
                            [hist EXCEPT !.commitRpcs = @ + Len(r.rpcs)])
                   /\ outcome' = outcome
              ELSE /\ outcome' = Returned(Undefined)
                   /\ pc' = "done"
                   /\ att' = a
                   /\ hist' = [hist EXCEPT !.commitRpcs = @ + 1]
                   /\ caught' = caught
  /\ UNCHANGED <<maxRetries, runOptions, attempt, lastError, result, clsVars, wbVars, qVars, aqVars, codec>>

(* transaction.commit(); return result; *)
RunCommit ==
  /\ pc = "commit"
  /\ \E resp \in CommitResponses(tx) :
       LET r == TxCommit(tx, resp)
           a == [att EXCEPT !.commitPayload =
                              IF r.rpcs = <<>> THEN @ ELSE Def(r.rpcs[1].payload)]
       IN  /\ Apply(r)
           /\ IF Raised(r.err)
              THEN /\ Raise(r.err, "commit", a,
                            [hist EXCEPT !.commitRpcs = @ + Len(r.rpcs)])
                   /\ outcome' = outcome
              ELSE /\ outcome' = Returned(result)
                   /\ pc' = "done"
                   /\ att' = a
                   /\ hist' = [hist EXCEPT !.commitRpcs = @ + 1]
                   /\ caught' = caught
  /\ UNCHANGED <<maxRetries, runOptions, attempt, lastError, result, clsVars, wbVars, qVars, aqVars, codec>>

(* the catch block letting a rollback error replace the original one *)
RunCatch_Masking ==
  /\ pc = "catch"
  /\ IF tx.isActive
     THEN \E resp \in RollbackResponses :
            LET r == TxRollback(tx, resp)
            IN  /\ Apply(r)
                /\ att' = [att EXCEPT !.rollbacks = @ + Len(r.rpcs),
                                      !.rollbackErr = r.err,
                                      !.rollbackPayload = Def(r.rpcs[1].payload)]
                /\ caught' = IF Raised(r.err) THEN r.err ELSE caught
                /\ lastError' = IF Raised(r.err) THEN r.err ELSE caught
     ELSE /\ UNCHANGED <<txVars, att, caught>>
          /\ lastError' = caught
  /\ pc' = "classify"
  /\ UNCHANGED <<maxRetries, runOptions, attempt, result, outcome, hist, clsVars, wbVars, qVars, aqVars, codec>>

(* catch (error) { lastError = error; if (transaction.isTransactionActive()) *)
(*   { try { transaction.rollback(); } catch (rollbackError) {} }               *)
RunCatch ==
  /\ pc = "catch"
  /\ lastError' = caught
  /\ IF tx.isActive
     THEN \E resp \in RollbackResponses :
            LET r == TxRollback(tx, resp)
            IN  /\ Apply(r)
                /\ att' = [att EXCEPT !.rollbacks = @ + Len(r.rpcs),
                                      !.rollbackErr = r.err,
                                      !.rollbackPayload = Def(r.rpcs[1].payload)]
     ELSE UNCHANGED <<txVars, att>>
  /\ pc' = "classify"
  /\ UNCHANGED <<maxRetries, runOptions, attempt, caught, result, outcome, hist, clsVars, wbVars, qVars, aqVars, codec>>

(* retrying whatever the error is *)
ShouldRetry_AnyError(e, n, m) == n < m

(* retrying once more than maxRetries allows *)
ShouldRetry_OffByOne(e, n, m) == isRetryableError(e.msg) /\ n <= m

(* if (this.isRetryableError(error) && attempt < maxRetries) *)
ShouldRetry(e, n, m) == isRetryableError(e.msg) /\ n < m

(* Utilities.sleep(delay); continue; *)
RunRetry ==
  /\ pc = "classify"
  /\ ShouldRetry(caught[1], attempt, maxRetries)
  /\ hist' = [hist EXCEPT !.sleeps = Append(@, BackoffDelay(attempt))]
  /\ attempt' = attempt + 1
  /\ pc' = "loop"
  /\ UNCHANGED <<txVars, maxRetries, runOptions, lastError, caught, result, outcome, att, clsVars, wbVars, qVars, aqVars, codec>>

(* throw error; *)
RunThrow ==
  /\ pc = "classify"
  /\ ~ShouldRetry(caught[1], attempt, maxRetries)
  /\ outcome' = Thrown(caught)
  /\ pc' = "done"
  /\ UNCHANGED <<txVars, maxRetries, runOptions, attempt, lastError, caught, result, hist, att, clsVars, wbVars, qVars, aqVars, codec>>

(* after the loop: throw lastError || new Error('Transaction failed after maximum retries') *)
RunExhausted ==
  /\ pc = "loop" /\ attempt > maxRetries
  /\ outcome' = Thrown(IF lastError # NoErr THEN lastError
                       ELSE Err(MsgMaxRetries, "runTransaction"))
  /\ pc' = "done"
  /\ UNCHANGED <<txVars, maxRetries, runOptions, attempt, lastError, caught, result, hist, att, clsVars, wbVars, qVars, aqVars, codec>>

NextRun ==
  \/ RunLoop \/ RunBegin
  \/ FnStage \/ FnRead \/ FnCommit \/ FnRollback \/ FnFilter \/ FnUpdateNoFields
  \/ FnReturn \/ FnThrow
  \/ RunCommit \/ RunCatch \/ RunRetry \/ RunThrow \/ RunExhausted

SpecRun == InitRun /\ [][NextRun]_vars

(* The loop of runTransaction around a user function that makes no call on *)
(* the transaction: it returns or raises.  The calls are synchronous, so a *)
(* step that can be taken is taken.                                        *)
NextLoop ==
  \/ RunLoop \/ RunBegin \/ FnReturn \/ FnThrow
  \/ RunCommit \/ RunCatch \/ RunRetry \/ RunThrow \/ RunExhausted

SpecRunFair == InitRun /\ [][NextLoop]_vars /\ WF_vars(NextLoop)

----------------------------------------------------------------------------
(* isRetryableError on its own: messages built from fragments of the       *)
(* keywords in both cases, of other words and of separators                *)

Fragments ==
  { <<"a", "b", "o", "r", "t">>, <<"e", "d">>, <<"A", "B", "O", "R", "T", "E", "D">>,
    <<"C", "o", "n", "f", "l", "i", "c", "t">>,
    <<"c", "o", "n", "t", "e", "n">>, <<"t", "i", "o", "n">>,
    <<"D", "e", "a", "d", "l", "i", "n", "e">>, <<" ">>,
    <<"E", "X", "C", "E", "E", "D", "E", "D">>,
    MsgNotFound, <<":">> }

RECURSIVE MessagesOf(_)
MessagesOf(n) ==
  IF n = 0 THEN {<<>>}
  ELSE MessagesOf(n - 1) \cup {m \o f : m \in MessagesOf(n - 1), f \in Fragments}

InitCls ==
  /\ errMsg \in MessagesOf(MaxFragments)
  /\ retryable = Undefined
  /\ tx = NewTransaction /\ lastCall = NoCall /\ utilities \in Hosts /\ RunIdle /\ WbIdle /\ QueryIdle /\ AggregateIdle /\ CodecIdle

Classify ==
  /\ retryable = Undefined
  /\ retryable' = Def(isRetryableError(errMsg))
  /\ UNCHANGED <<errMsg, txVars, runVars, wbVars, qVars, aqVars, codec>>

NextCls == Classify

SpecCls == InitCls /\ [][NextCls]_vars

----------------------------------------------------------------------------
(* Properties of the Transaction state machine (SpecTx) *)

GuardedOps ==
  {"get", "getAll", "create", "set", "update", "delete", "transform", "commit", "rollback"}

Inactive(t) == ~t.isActive

(* C1: on an Inactive transaction each of get, getAll, create, set, update, *)
(* delete, transform, commit and rollback raises the 'not active' error,    *)
(* issues no RPC and leaves state, id and pending writes as they were.      *)
C1_InactiveRejects ==
  [][(Inactive(tx) /\ lastCall'.op \in GuardedOps)
       => /\ Raised(lastCall'.err)
          /\ lastCall'.err[1].msg = MsgNotActive
          /\ lastCall'.rpcs = <<>>
          /\ tx' = tx]_vars

(* a rollback rejected on a transaction that is Inactive *)
C1_Witness ==
  /\ Inactive(tx)
  /\ lastCall.op = "rollback"
  /\ lastCall.err = Err(MsgNotActive, "rollback")
  /\ lastCall.rpcs = <<>>

(* C2: begin() on an Inactive transaction issues exactly one beginTransaction *)
(* RPC and makes it Active when the RPC returns, leaves it Inactive when the  *)
(* RPC raises; begin() on an Active transaction raises, issues no RPC and     *)
(* leaves the transaction Active with the same id and pending writes.         *)
C2_Begin ==
  [][(lastCall'.op = "begin")
       => IF tx.isActive
          THEN /\ Raised(lastCall'.err)
               /\ lastCall'.rpcs = <<>>
               /\ tx' = tx
          ELSE /\ Len(lastCall'.rpcs) = 1
               /\ lastCall'.rpcs[1].rpc = "beginTransaction"
               /\ tx'.isActive = ~Raised(lastCall'.err)
               /\ Raised(lastCall'.err) => tx' = tx
               /\ tx'.writes = tx.writes]_vars

(* begin() rejected on an Active transaction that has a pending write *)
C2_Witness ==
  /\ tx.isActive
  /\ Len(tx.writes) = 1
  /\ lastCall.op = "begin"
  /\ lastCall.err = Err(MsgAlreadyActive, "begin")

(* C3 as stated: after commit() or rollback() on an Active transaction the *)
(* transaction is Inactive, whether the RPC returned or raised.            *)
C3_InactiveWhateverOutcome ==
  [][(tx.isActive /\ lastCall'.op \in {"commit", "rollback"}) => Inactive(tx')]_vars

(* the entries of a batchGet response reported as found, in their order *)
RECURSIVE FoundOnly(_)
FoundOnly(docs) ==
  IF docs = <<>> THEN <<>>
  ELSE IF Head(docs).found THEN <<Head(docs)>> \o FoundOnly(Tail(docs))
  ELSE FoundOnly(Tail(docs))

(* C22: on an Active transaction get(path) raises the not-found error when  *)
(* the document returned has no fields, getAll(paths) returns exactly the   *)
(* documents reported found, in order and possibly none, without raising;   *)
(* either call leaves the transaction Active with its id and its pending    *)
(* writes as they were.                                                     *)
C22_ReadsOfMissingDocuments ==
  tx.isActive =>
    /\ \A path \in PathInputs :
         LET r == TxGet(tx, path, Ok(Undefined))
         IN  /\ r.err = Err(MsgNoFields \o path, "get")
             /\ r.ret = Undefined
             /\ r.tx = tx
    /\ \A paths \in GetAllInputs : \A docs \in FoundLists(Len(paths)) :
         LET r == TxGetAll(tx, paths, Ok(docs))
         IN  /\ ~Raised(r.err)
             /\ r.ret = Def(FoundOnly(docs))
             /\ Len(r.ret[1]) <= Len(paths)
             /\ r.tx = tx
    /\ lastCall.op \in {"get", "getAll"} /\ Len(lastCall.rpcs) = 1 =>
         lastCall.rpcs[1].payload.transaction = tx.transactionId

(* getAll() on a transaction with a pending write has returned one document *)
(* of the two asked for                                                     *)
C22_Witness ==
  /\ tx.isActive /\ tx.writes # <<>>
  /\ lastCall.op = "getAll" /\ ~Raised(lastCall.err)
  /\ Len(lastCall.rpcs) = 1 /\ Len(lastCall.rpcs[1].payload.documents) = 2
  /\ IsDef(lastCall.ret) /\ Len(lastCall.ret[1]) = 1

----------------------------------------------------------------------------
(* Properties of runTransaction (SpecRun, SpecRunFair) *)

Done        == pc = "done"
HasReturned == Done /\ outcome[1].kind = "returned"
HasThrown   == Done /\ outcome[1].kind = "thrown"

(* every failed attempt so far failed because the user function raised *)
OnlyFnFailed == hist.failedAt \subseteq {"fn"}

(* C4: with begin and commit succeeding, when the function raised a retryable *)
(* error on its first k invocations (k = attempt, 0 <= k <= maxRetries) and    *)
(* returned on the next one, the function was invoked k+1 times, k backoff    *)
(* sleeps were taken, the driver issued one commit RPC and the value returned *)
(* is the one the last invocation returned.                                   *)
C4_RetryThenSucceed ==
  (HasReturned /\ OnlyFnFailed)
    => /\ 0 <= attempt /\ attempt <= maxRetries
       /\ hist.fnCalls = attempt + 1
       /\ hist.started = attempt + 1
       /\ Len(hist.sleeps) = attempt
       /\ hist.commitRpcs = 1
       /\ IsDef(att.fnReturn)
       /\ outcome[1].value = att.fnReturn

(* the function raised twice and returned "r2" on its third invocation *)
C4_Witness ==
  /\ HasReturned
  /\ hist.failedAt = {"fn"}
  /\ attempt = 2
  /\ hist.fnCalls = 3
  /\ hist.sleeps = <<1000, 2000>>
  /\ outcome[1].value = Def("r2")

ExpectedDelays == <<1000, 2000, 4000, 8000, 10000, 10000, 10000, 10000>>

(* C5: the sleep after failed attempt i (from 0) lasts min(1000 * 2^i, 10000) *)
(* ms, that is 1000, 2000, 4000, 8000, 10000, 10000, ...; no sleep exceeds     *)
(* 10000 ms and exactly one sleep separates two consecutive attempts.          *)
C5_BackoffSchedule ==
  /\ Len(hist.sleeps) <= Len(ExpectedDelays)
  /\ hist.sleeps = SubSeq(ExpectedDelays, 1, Len(hist.sleeps))
  /\ \A i \in 1..Len(hist.sleeps) : hist.sleeps[i] <= 10000
  /\ Len(hist.sleeps) = IF hist.started = 0 \/ pc = "loop"
                        THEN hist.started ELSE hist.started - 1

(* five sleeps were taken, the fifth capped: 1000 * 2^4 is above the cap *)
C5_Witness ==
  /\ Len(hist.sleeps) = 5
  /\ hist.sleeps[4] = 8000
  /\ hist.sleeps[5] = 10000
  /\ BaseDelayMs * 2 ^ 4 > MaxDelayMs
  /\ hist.started = 6

(* C6: an error of begin, the function or commit whose message matches no   *)
(* retryable keyword is propagated at once: the next step throws that same  *)
(* error, with no sleep, no further begin, function call or commit; when it *)
(* is the first attempt the function was invoked at most once and no sleep  *)
(* was ever taken.                                                          *)
C6_NonRetryablePropagates ==
  [][(pc = "classify" /\ ~isRetryableError(att.original[1].msg))
       => /\ pc' = "done"
          /\ outcome' = Thrown(att.original)
          /\ hist' = hist
          /\ tx' = tx
          /\ attempt = 0 => (hist.fnCalls <= 1 /\ hist.sleeps = <<>>)]_vars

(* the function raised "not found" on the first attempt and it was thrown *)
C6_Witness ==
  /\ HasThrown
  /\ outcome[1].err = Err(MsgNotFound, "fn")
  /\ attempt = 0
  /\ hist.fnCalls = 1
  /\ hist.sleeps = <<>>
  /\ maxRetries = DefaultMaxRetries

(* C7: runTransaction terminates, and when every attempt failed with a     *)
(* retryable error raised by the function (maxRetries >= 0) the function   *)
(* was invoked maxRetries + 1 times, maxRetries sleeps were taken and the  *)
(* error of the last attempt is the one thrown.                            *)
C7_Terminates ==
  /\ <>Done
  /\ [](( /\ HasThrown /\ maxRetries >= 0
          /\ hist.failedAt = {"fn"}
          /\ isRetryableError(outcome[1].err[1].msg) )
          => /\ hist.fnCalls = maxRetries + 1
             /\ hist.started = maxRetries + 1
             /\ Len(hist.sleeps) = maxRetries
             /\ outcome[1].err = att.original)

(* the default run: six invocations, five sleeps, then the error is thrown *)
C7_Witness ==
  /\ HasThrown
  /\ maxRetries = DefaultMaxRetries
  /\ hist.failedAt = {"fn"}
  /\ hist.fnCalls = 6
  /\ Len(hist.sleeps) = 5
  /\ outcome[1].err = Err(MsgAborted, "fn")

(* C8: when an attempt fails, the catch block attempts exactly one rollback *)
(* RPC if the attempt's transaction is still Active and none if it is not   *)
(* (it is not after a failed begin), before any sleep or next begin; an     *)
(* error of that rollback is swallowed: the error classified, kept as       *)
(* lastError and finally thrown is the original one.                        *)
C8_RollbackSwallowed ==
  /\ [][(pc = "catch")
          => /\ pc' = "classify"
             /\ att'.rollbacks = (IF tx.isActive THEN 1 ELSE 0)
             /\ caught' = att.original
             /\ lastError' = att.original
             /\ att'.original = att.original
             /\ hist' = hist]_vars
  /\ []((pc = "catch" /\ att.original[1].at = "begin") => Inactive(tx))
  /\ []((pc = "catch") => (att.rollbacks = 0 /\ caught = att.original))
  /\ []((HasThrown /\ hist.started > 0) => outcome[1].err = att.original)

(* commit raised, the rollback attempted for it raised too and was swallowed *)
C8_Witness ==
  /\ pc = "classify"
  /\ att.original = Err(MsgAborted, "commit")
  /\ att.rollbacks = 1
  /\ att.rollbackErr = Err(MsgNotFound, "rollback")
  /\ caught = att.original
  /\ lastError = att.original

(* the id a transaction holds after begin() received the given token *)
ExpectedId(rawToken) ==
  IF rawToken = Undefined \/ rawToken = Def(<<>>) THEN Undefined
  ELSE Def(NormalizeToken(rawToken[1], utilities))

(* C9: every attempt starts from a fresh Transaction; the commit RPC of an  *)
(* attempt carries exactly the writes the function staged in that attempt   *)
(* and the token (normalized) that attempt's begin returned, and that token *)
(* does not change between begin and commit or rollback of the attempt.     *)
C9_FreshPerAttempt ==
  /\ (pc = "begin") => tx = NewTransaction
  /\ (pc \in {"fn", "commit", "catch"} /\ tx.isActive)
       => (tx.transactionId = ExpectedId(att.rawToken) /\ tx.writes = att.staged)
  /\ IsDef(att.commitPayload)
       => /\ att.commitPayload[1].writes = att.staged
          /\ att.commitPayload[1].transaction = ExpectedId(att.rawToken)
  /\ IsDef(att.rollbackPayload)
       => att.rollbackPayload[1].transaction = ExpectedId(att.rawToken)

(* a later attempt committed the one write it staged under its own token *)
C9_Witness ==
  /\ HasReturned
  /\ attempt = 1
  /\ Len(att.staged) = 1
  /\ att.commitPayload[1].writes = att.staged
  /\ att.commitPayload[1].transaction = Def(<<"A", "-", "8", "=">>)

(* the messages of the validation and state errors a Transaction raises *)
FixedTextErrors ==
  {MsgNotActive, MsgAlreadyActive, MsgDocIdRequired, MsgMaskEmpty, MsgMaskType}

(* e was raised by a validation or state check, before any RPC *)
IsValidationOrStateError(e) == e.at = "filter" \/ e.msg \in FixedTextErrors

(* C11: a validation or state error raised while the function runs (bad     *)
(* operator, empty mask, missing document id, call on an inactive           *)
(* transaction) is never retried, whatever caller-supplied text its message *)
(* embeds: the next step throws it, with no sleep and no further attempt.   *)
C11_ValidationNeverRetried ==
  [][(pc = "classify" /\ att.original[1].at # "begin"
        /\ IsValidationOrStateError(att.original[1]))
       => /\ pc' = "done"
          /\ outcome' = Thrown(att.original)
          /\ hist' = hist
          /\ attempt' = attempt]_vars

(* C39 as stated: whatever maxRetries is, zero and negative values         *)
(* included, when runTransaction raises it has begun at least one           *)
(* transaction, has invoked the function unless a begin failed, and raises  *)
(* the error that begin, the function or commit raised.                     *)
C39_AtLeastOneAttempt ==
  IsDef(outcome) /\ outcome[1].kind = "thrown" =>
    /\ hist.started >= 1
    /\ hist.fnCalls >= 1 \/ "begin" \in hist.failedAt
    /\ Raised(att.original) /\ outcome[1].err = att.original

(* the error commit() raises on a transaction that is no longer Active *)
NotActiveAtCommit == Err(MsgNotActive, "commit")

C40_Step ==
  /\ pc = "commit" /\ ~tx.isActive =>
       /\ pc' = "catch" /\ caught' = NotActiveAtCommit
       /\ lastCall'.rpcs = <<>> /\ hist'.commitRpcs = hist.commitRpcs
  /\ pc \in {"catch", "classify"} /\ caught = NotActiveAtCommit =>
       /\ tx' = tx /\ att' = att /\ hist' = hist /\ attempt' = attempt
       /\ pc = "classify" => pc' = "done" /\ outcome' = Thrown(NotActiveAtCommit)

(* C40: when the function has ended the transaction itself, by a commit()  *)
(* or rollback() that succeeded, and returns, the driver's commit raises    *)
(* 'Transaction is not active' without an RPC; the attempt issues no        *)
(* rollback RPC, is not retried, and runTransaction raises that error       *)
(* instead of returning the function's result.                              *)
C40_SelfCommit ==
  /\ [][C40_Step]_vars
  /\ [](pc = "commit" /\ ~tx.isActive => att.fnOps >= 1 /\ att.rollbacks = 0)

(* runTransaction has raised 'not active' after the function committed its  *)
(* write itself and returned r1                                             *)
C40_Witness ==
  /\ pc = "done" /\ outcome = Thrown(NotActiveAtCommit)
  /\ att.fnReturn = Def("r1") /\ IsDef(att.commitPayload)
  /\ att.commitPayload[1].writes # <<>>
  /\ att.rollbacks = 0 /\ hist.commitRpcs = 0 /\ hist.started = 1

----------------------------------------------------------------------------
(* Properties of WriteBatch and Firestore.batchWrite (SpecWb, SpecWrites) *)

StagingOps == {"create", "set", "update", "delete"}

Last(s) == s[Len(s)]

(* C12 as stated: after commit() on a non-empty batch the pending-write   *)
(* count is 0, whether it returned, raised for a non-zero status or raised *)
(* because the RPC failed.                                                 *)
C12_EmptyAfterCommit ==
  [][(wbCall'.op = "commit" /\ wb.writes # <<>>) => Len(wb'.writes) = 0]_vars

(* the path names a document: an odd number of separators between its segments *)
HasDocumentId(path) == Cardinality({i \in 1..Len(path) : path[i] = "/"}) % 2 = 1

(* C13: commit() on a batch with no pending writes raises without an RPC;   *)
(* create() at a path without a document id raises without an RPC and       *)
(* without staging a write, on a WriteBatch and on a Transaction alike.      *)
C13_ValidationBeforeRpc ==
  /\ [][(wbCall'.op = "commit" /\ wb.writes = <<>>)
          => /\ wbCall'.err = Err(MsgEmptyBatch, "commit")
             /\ wbCall'.rpcs = <<>>
             /\ wb' = wb]_vars
  /\ [][(wbCall'.op = "create" /\ Raised(wbCall'.err))
          => (wbCall'.rpcs = <<>> /\ wb' = wb)]_vars
  /\ [](\A path \in PathInputs, fields \in FieldsInputs :
          ~HasDocumentId(path)
            => LET rb == WbCreate(wb, path, fields)
                   rt == TxCreate(tx, path, fields)
               IN  /\ Raised(rb.err) /\ rb.rpcs = <<>> /\ rb.tx = wb
                   /\ Raised(rt.err) /\ rt.rpcs = <<>> /\ rt.tx = tx)

(* create() at a collection path was rejected on a batch holding one write *)
C13_Witness ==
  /\ wbCall.op = "create"
  /\ wbCall.err = Err(MsgBatchDocIdRequired, "create")
  /\ wbCall.rpcs = <<>>
  /\ Len(wb.writes) = 1

(* the status at index i (from 0) carries a non-zero code *)
NonZero(status, i) == IsDef(status[i + 1].code) /\ status[i + 1].code[1] # 0

(* what the claim expects of a call whose RPC returned body, given the *)
(* error it raised and the value it returned                           *)
StatusReported(body, err, ret) ==
  LET status  == IF IsDef(body.status) THEN body.status[1] ELSE <<>>
      failing == {i \in 0..(Len(status) - 1) : NonZero(status, i)}
  IN  IF failing # {}
      THEN LET low == CHOOSE i \in failing : \A j \in failing : i <= j
           IN  /\ Raised(err)
               /\ err[1].msg = MsgOperationFailed(low, IF status[low + 1].message = <<>>
                                                       THEN MsgUnknownError
                                                       ELSE status[low + 1].message)
               /\ includes(err[1].msg, IntToString(low))
               /\ includes(err[1].msg, status[low + 1].message)
      ELSE /\ err = NoErr
           /\ ret = Def(IF IsDef(body.writeResults) THEN body.writeResults[1] ELSE <<>>)

(* C14: when the response's status list has a non-zero code, commit() and   *)
(* batchWrite() raise an error naming the lowest such index and its message; *)
(* otherwise they return the response's writeResults, or an empty list.      *)
C14_FirstFailingStatus ==
  /\ wb.writes # <<>>
       => \A resp \in BatchWriteResponses(Len(wb.writes)) :
            resp.ok => LET r == WbCommit(wb, resp)
                       IN  StatusReported(resp.body, r.err, r.ret)
  /\ \A writes \in BatchWriteInputs \ {<<>>} :
       \A resp \in BatchWriteResponses(Len(writes)) :
         resp.ok => LET r == batchWrite(writes, resp)
                    IN  StatusReported(resp.body, r.err, r.ret)

(* a commit of two writes raised for the status at index 1 *)
C14_Witness ==
  /\ wbCall.op = "commit"
  /\ wbCall.err = Err(MsgOperationFailed(1, <<"b", "a", "d">>), "commit")
  /\ Len(wbCall.rpcs[1].payload.writes) = 2

(* C15: size() is 0 on a new batch; a create, set, update or delete call    *)
(* that returns raises it by exactly 1 and one that raises leaves it as it  *)
(* was; size() returns the count and changes nothing; the count is always   *)
(* the number of writes staged since construction or the last clearing.     *)
C15_SizeCounts ==
  /\ [](wbCall.op = "new" => Len(wb.writes) = 0)
  /\ [][(wbCall'.op \in StagingOps)
          => IF Raised(wbCall'.err)
             THEN wb' = wb
             ELSE Len(wb'.writes) = Len(wb.writes) + 1]_vars
  /\ [][(wbCall'.op = "size")
          => (wb' = wb /\ wbCall'.ret = Def(Len(wb.writes)))]_vars
  /\ [](Len(wb.writes) = Len(wbHist.ids))

(* size() answered 2 after two writes were staged *)
C15_Witness ==
  /\ wbCall.op = "size"
  /\ wbCall.ret = Def(2)
  /\ Len(wb.writes) = 2
  /\ wbHist.ids = <<1, 2>>

(* C16: a commit of a non-empty batch issues exactly one batchWrite RPC with *)
(* exactly the pending writes, which are in the order they were staged; a    *)
(* commit that returned leaves a batch like a new one, and a write it sent   *)
(* is never pending, so never sent, again.                                   *)
C16_OneRpcThenReusable ==
  /\ [][(wbCall'.op = "commit" /\ wb.writes # <<>>)
          => /\ Len(wbCall'.rpcs) = 1
             /\ wbCall'.rpcs[1].rpc = "batchWrite"
             /\ wbCall'.rpcs[1].payload.writes = wb.writes
             /\ ~Raised(wbCall'.err) => wb' = NewWriteBatch]_vars
  /\ [][(wbCall'.op \in StagingOps \cup {"transform"} /\ wb'.writes # wb.writes)
          => SubSeq(wb'.writes, 1, Len(wb.writes)) = wb.writes]_vars
  /\ [](\A i, j \in 1..Len(wbHist.ids) : i < j => wbHist.ids[i] < wbHist.ids[j])
  /\ [](\A i \in 1..Len(wbHist.ids) : wbHist.ids[i] \notin wbHist.committed)

(* the batch was committed, reused for another write and committed again *)
C16_Witness ==
  /\ wbCall.op = "commit"
  /\ ~Raised(wbCall.err)
  /\ Len(wbCall.rpcs[1].payload.writes) = 1
  /\ wbHist.committed = {1, 2}
  /\ wb = NewWriteBatch

(* the write w follows the precondition policy of the call op that staged it *)
FollowsPolicy(op, w) ==
  CASE op = "create" -> "update" \in DOMAIN w /\ w.currentDocument = Def(FALSE)
    [] op = "update" -> "update" \in DOMAIN w /\ w.currentDocument = Def(TRUE)
    [] op = "set"    -> "update" \in DOMAIN w /\ w.currentDocument = Undefined
    [] op = "delete" -> DOMAIN w = {"delete"}

(* C17: on a WriteBatch and on a Transaction, create stages an update write *)
(* with exists=false, update one with exists=true, set one without a        *)
(* precondition, and delete a delete-by-name entry without a precondition.  *)
C17_PreconditionPolicy ==
  /\ [][(wbCall'.op \in StagingOps /\ ~Raised(wbCall'.err))
          => (wb'.writes # <<>> /\ FollowsPolicy(wbCall'.op, Last(wb'.writes)))]_vars
  /\ [][(lastCall'.op \in StagingOps /\ ~Raised(lastCall'.err))
          => (tx'.writes # <<>> /\ FollowsPolicy(lastCall'.op, Last(tx'.writes)))]_vars

(* an Active transaction staged a delete and then an update that must exist *)
C17_Witness ==
  /\ tx.isActive
  /\ lastCall.op = "update"
  /\ ~Raised(lastCall.err)
  /\ Len(tx.writes) = 2
  /\ DOMAIN tx.writes[1] = {"delete"}
  /\ tx.writes[2].currentDocument = Def(TRUE)

(* every write of ws that carries an updateMask lists at least one field path *)
MasksNonEmpty(ws) ==
  \A i \in 1..Len(ws) :
    ("updateMask" \in DOMAIN ws[i] /\ IsDef(ws[i].updateMask))
      => Len(ws[i].updateMask[1]) >= 1

(* C18 as stated: after any set and update calls on a WriteBatch or a     *)
(* Transaction, every pending write with an updateMask has a field path.  *)
C18_MaskNonEmpty == MasksNonEmpty(wb.writes) /\ MasksNonEmpty(tx.writes)

(* the name a quoted field path stands for: the quotes removed, an escaped *)
(* backtick read as a backtick                                             *)
RECURSIVE Unescape(_)
Unescape(s) ==
  IF s = <<>> THEN <<>>
  ELSE IF Len(s) >= 2 /\ s[1] = "\\" /\ s[2] = BT THEN <<BT>> \o Unescape(SubSeq(s, 3, Len(s)))
  ELSE <<Head(s)>> \o Unescape(Tail(s))

IsQuoted(p) == Len(p) >= 2 /\ p[1] = BT /\ p[Len(p)] = BT

Unquote(p) == Unescape(SubSeq(p, 2, Len(p) - 1))

(* the names the mask argument asks for, if it asks for a mask *)
MaskNames(fields, mask) ==
  IF mask.t = "boolean" /\ mask.b THEN Def(fields)
  ELSE IF mask.t = "array" THEN Def(mask.a)
  ELSE Undefined

(* update(path, fields, mask) went from pending writes ws to result r as stated *)
UpdateAsStated(ws, r, fields, mask) ==
  LET names == MaskNames(fields, mask)
  IN  IF names = Undefined
      THEN /\ ~Raised(r.err)
           /\ Len(r.tx.writes) = Len(ws) + 1
           /\ Last(r.tx.writes).updateMask = Undefined
      ELSE IF names[1] = <<>>
      THEN Raised(r.err) /\ r.tx.writes = ws
      ELSE /\ ~Raised(r.err)
           /\ Len(r.tx.writes) = Len(ws) + 1
           /\ IsDef(Last(r.tx.writes).updateMask)
           /\ LET m == Last(r.tx.writes).updateMask[1]
              IN  /\ Len(m) = Len(names[1])
                  /\ \A i \in 1..Len(m) : IsQuoted(m[i]) /\ Unquote(m[i]) = names[1][i]

(* C19: update with mask=true stages an updateMask of exactly the given    *)
(* field names, with an array one of exactly the array's names, with mask  *)
(* absent or false none; when the mask would be empty it raises and stages *)
(* no write.  On a WriteBatch and on an Active Transaction.                *)
C19_UpdateMask ==
  \A fields \in FieldsInputs, mask \in {m \in MaskInputs : m.t # "string"} :
    /\ UpdateAsStated(wb.writes, WbUpdate(wb, DocPath, fields, mask), fields, mask)
    /\ tx.isActive
         => UpdateAsStated(tx.writes, TxUpdate(tx, DocPath, fields, mask), fields, mask)

(* update with the array mask [a] on fields a and x-backtick-y was staged *)
C19_Witness ==
  /\ wbCall.op = "update"
  /\ ~Raised(wbCall.err)
  /\ Last(wb.writes).update.fields = <<FieldA, FieldXY>>
  /\ Last(wb.writes).updateMask = Def(<< <<BT, "a", BT>> >>)

(* the number of field transforms the call that went from batch b to r staged *)
StagedTransforms(b, r) ==
  IF r.tx.writes = b.writes THEN 0 ELSE Len(Last(r.tx.writes).transform.fieldTransforms)

(* C20 as stated: transform maps every entry to one field transform or      *)
(* raises; it never returns having dropped an entry.                        *)
C20_UnknownShapeRejected ==
  \A transforms \in BatchTransformInputs :
    LET r == WbTransform(wb, DocPath, transforms)
    IN  ~Raised(r.err) => StagedTransforms(wb, r) = Len(transforms)

(* C38 as stated: an Active transaction holds a transaction id, whatever   *)
(* the beginTransaction response contained.                                 *)
C38_ActiveHoldsId ==
  tx.isActive => IsDef(tx.transactionId)

(* C37: an Inactive transaction holds no pending write and no transaction  *)
(* id, whatever calls were made and whichever RPCs failed, so nothing       *)
(* staged in one begin..commit/rollback cycle is carried into the next.     *)
C37_InactiveIsClean ==
  Inactive(tx) => tx.writes = <<>> /\ ~IsDef(tx.transactionId)

(* commit() has returned on a transaction that held a write and a token *)
C37_Witness ==
  /\ Inactive(tx) /\ lastCall.op = "commit" /\ ~Raised(lastCall.err)
  /\ lastCall.rpcs # <<>> /\ lastCall.rpcs[1].payload.writes # <<>>
  /\ IsDef(lastCall.rpcs[1].payload.transaction)
  /\ tx.writes = <<>>

----------------------------------------------------------------------------
(* Properties of a Transaction and a WriteBatch given the same requests    *)
(* (SpecBoth)                                                              *)

(* A field transform as sent: its field path and the transform it carries *)
FieldTransformView(ft) ==
  [fieldPath |-> ft.fieldPath,
   kind |-> IF "kind" \in DOMAIN ft THEN ft.kind
            ELSE CHOOSE k \in DOMAIN ft : k # "fieldPath"]

WriteView(w) ==
  IF "transform" \in DOMAIN w
  THEN [transform |->
          [document |-> w.transform.document,
           fieldTransforms |->
             [i \in 1..Len(w.transform.fieldTransforms) |->
                FieldTransformView(w.transform.fieldTransforms[i])]]]
  ELSE w

WritesView(ws) == [i \in 1..Len(ws) |-> WriteView(ws[i])]

(* C21: an Active Transaction and a WriteBatch given the same create, set,  *)
(* update, delete and transform requests hold the same pending writes, have *)
(* rejected the same requests, and the transaction has issued no RPC for    *)
(* them.                                                                    *)
C21_StagesAsBatch ==
  tx.isActive /\ lastCall.op \in StagingOps \cup {"transform"} =>
    /\ WritesView(tx.writes) = WritesView(wb.writes)
    /\ Raised(lastCall.err) <=> Raised(wbCall.err)
    /\ lastCall.rpcs = <<>>

----------------------------------------------------------------------------
(* Properties of the Query builder (SpecQuery, SpecPaging) *)

(* C23: on a new query, as long as every call made is a Where call that     *)
(* returned, the root is absent before the first call, the bare filter of   *)
(* the call after one, and after n >= 2 a single AND composite whose        *)
(* children are the n filters in call order, none of them a composite.      *)
C23_WhereConjoins ==
  qHist.onlyWhere =>
    LET n == Len(qHist.wheres)
    IN  /\ n = 0 => q.where = Undefined
        /\ n = 1 => q.where = Def(qHist.wheres[1]) /\ ~IsComposite(q.where[1])
        /\ n >= 2 =>
             /\ IsDef(q.where) /\ IsComposite(q.where[1])
             /\ q.where[1].compositeFilter.op = "AND"
             /\ q.where[1].compositeFilter.filters = qHist.wheres
             /\ \A i \in 1..n : ~IsComposite(qHist.wheres[i])

(* three Where calls have returned, the last two with different filters *)
C23_Witness ==
  /\ qHist.onlyWhere /\ Len(qHist.wheres) = 3
  /\ qHist.wheres[2] # qHist.wheres[3]
  /\ Len(Children(q)) = 3

IsAnd(f) == IsComposite(f) /\ f.compositeFilter.op = "AND"

(* the filter the arguments of the last Where or createFilter call denote *)
FilterOf(call) == createFilter(FieldX, call.args[1], call.args[2]).ret[1]

(* C24 as stated: a Where call that returns on a root that is not an AND    *)
(* composite, an OR composite included, leaves AND[root, filter] with the   *)
(* former root unchanged inside it.                                         *)
C24_WrapsNonAndRoot ==
  [][ /\ qCall'.op = "Where" /\ ~Raised(qCall'.err)
      /\ IsDef(q.where) /\ ~IsAnd(q.where[1])
      => q'.where = Def(And(<<q.where[1], FilterOf(qCall')>>)) ]_vars

(* C25: WhereOr with fewer than two filters raises and leaves the query as *)
(* it was; with two or more it returns, and the root becomes OR[filters]    *)
(* when there was none, AND[root, OR[filters]] when the root was not an AND *)
(* composite, and the AND composite with OR[filters] appended as its last   *)
(* child when it was one.                                                   *)
C25_WhereOr ==
  [][ qCall'.op = "WhereOr" =>
        LET filters  == qCall'.filters
            orFilter == [compositeFilter |-> [op |-> "OR", filters |-> filters]]
        IN  IF Len(filters) < 2
            THEN Raised(qCall'.err) /\ q' = q
            ELSE /\ ~Raised(qCall'.err)
                 /\ q'.offset = q.offset /\ q'.limit = q.limit
                 /\ ~IsDef(q.where) => q'.where = Def(orFilter)
                 /\ IsDef(q.where) /\ ~IsAnd(q.where[1]) =>
                      q'.where = Def([compositeFilter |->
                                        [op |-> "AND", filters |-> <<q.where[1], orFilter>>]])
                 /\ IsDef(q.where) /\ IsAnd(q.where[1]) =>
                      q'.where = Def([compositeFilter |->
                                        [op |-> "AND",
                                         filters |-> Append(q.where[1].compositeFilter.filters,
                                                            orFilter)]]) ]_vars

(* WhereOr has returned on a root that was the AND composite of two Where   *)
(* calls: the OR composite is its third child                               *)
C25_Witness ==
  /\ qCall.op = "WhereOr" /\ ~Raised(qCall.err)
  /\ IsDef(q.where) /\ IsAnd(q.where[1])
  /\ Len(qHist.wheres) = 2
  /\ Len(Children(q)) = 3
  /\ Children(q)[3] = [compositeFilter |-> [op |-> "OR", filters |-> qCall.filters]]

OperatorOmitted(call) == call.args[1].t \in {"null", "undefined"}

(* the filter a Where call that returned has put last under the root *)
Emitted(query) == Last(Children(query))

IsNullOnX == [unaryFilter |-> [field |-> [fieldPath |-> <<BT, "x", BT>>], op |-> "IS_NULL"]]
IsNanOnX  == [unaryFilter |-> [field |-> [fieldPath |-> <<BT, "x", BT>>], op |-> "IS_NAN"]]

(* C26: a Where call on field x with the operator left out (null or         *)
(* undefined) and a null or undefined value returns, and the filter it adds *)
(* is the unary filter of x with op IS_NULL and nothing else: no value.     *)
C26_OmittedOperatorNullValue ==
  qCall.op = "Where" /\ OperatorOmitted(qCall) /\ qCall.args[2].t \in {"null", "undefined"} =>
    /\ ~Raised(qCall.err)
    /\ Emitted(q) = IsNullOnX
    /\ DOMAIN Emitted(q).unaryFilter = {"field", "op"}

(* Where('x', null) has returned on a new query *)
C26_Witness ==
  /\ qCall.op = "Where" /\ qCall.args = <<JsNull, JsUndefined>>
  /\ qHist.wheres = <<IsNullOnX>> /\ q.where = Def(IsNullOnX)

(* C27 as stated: a Where call on field x without a string operator that  *)
(* supplies NaN, as the value or in the place of the operator with no value *)
(* (Where(field, NaN)), returns and adds the unary filter of x with op      *)
(* IS_NAN.                                                                  *)
C27_NanEmitsIsNan ==
  /\ qCall.op = "Where" /\ qCall.args[1].t # "string"
  /\ \/ isNumberNaN(qCall.args[2])
     \/ isNumberNaN(qCall.args[1]) /\ qCall.args[2] = JsUndefined
  => ~Raised(qCall.err) /\ Emitted(q) = IsNanOnX

(* the combinations of operator and value the specification accepts *)
Accepted(operator, value) ==
  \/ operator.t = "string" /\ NormalizeOperator(operator.s) \in FieldFilterOpKeys
  \/ operator.t # "string" /\ IsNullish(value)
  \/ operator.t # "string" /\ isNumberNaN(value)

StartsWith(s, prefix) == Len(s) >= Len(prefix) /\ SubSeq(s, 1, Len(prefix)) = prefix

(* C28 as stated: a Where or createFilter call whose operator and value are *)
(* none of the accepted combinations raises the Invalid Operator error; in  *)
(* particular an operator that is not a string with an ordinary value does. *)
C28_OtherCombinationsRaise ==
  qCall.op \in {"Where", "createFilter"} /\ ~Accepted(qCall.args[1], qCall.args[2]) =>
    Raised(qCall.err) /\ StartsWith(qCall.err[1].msg, MsgInvalidOperator)

(* the wire operator the specification gives for the lower-case spelling of *)
(* a binary operator; "" for any other word                                 *)
StatedWireOperator(name) ==
  CASE name = <<"=", "=">>  -> "EQUAL"
    [] name = <<"=", "=", "=">> -> "EQUAL"
    [] name = <<"!", "=">>  -> "NOT_EQUAL"
    [] name = <<"!", "=", "=">> -> "NOT_EQUAL"
    [] name = <<"<">>   -> "LESS_THAN"
    [] name = <<"<", "=">>  -> "LESS_THAN_OR_EQUAL"
    [] name = <<">">>   -> "GREATER_THAN"
    [] name = <<">", "=">>  -> "GREATER_THAN_OR_EQUAL"
    [] name = <<"a", "r", "r", "a", "y", "-", "c", "o", "n", "t", "a", "i", "n", "s">>     -> "ARRAY_CONTAINS"
    [] name = <<"a", "r", "r", "a", "y", "-", "c", "o", "n", "t", "a", "i", "n", "s", "-", "a", "n", "y">> -> "ARRAY_CONTAINS_ANY"
    [] name = <<"i", "n">>     -> "IN"
    [] name = <<"n", "o", "t", "-", "i", "n">> -> "NOT_IN"
    [] OTHER -> ""

(* the filter a Where or createFilter call that returned has produced *)
Produced(call, query) == IF call.op = "createFilter" THEN call.ret[1] ELSE Emitted(query)

(* C29 as stated: a Where or createFilter call whose operator is a binary   *)
(* operator of the specification in any letter case, array-contains         *)
(* included, returns a field filter with the corresponding wire operator.   *)
C29_BinaryOperatorsAccepted ==
  /\ qCall.op \in {"Where", "createFilter"} /\ qCall.args[1].t = "string"
  /\ StatedWireOperator(toLowerCase(qCall.args[1].s)) # ""
  => /\ ~Raised(qCall.err)
     /\ "fieldFilter" \in DOMAIN Produced(qCall, q)
     /\ Produced(qCall, q).fieldFilter.op = StatedWireOperator(toLowerCase(qCall.args[1].s))

IsNumber(v)      == v.t = "number" /\ ~v.nan
IsNonNegative(v) == IsNumber(v) /\ v.n >= 0

(* C30: Range(start, end) with 0 <= start < end returns and sets offset to  *)
(* start and limit to end - start; Range with any other arguments, and      *)
(* Offset or Limit with an argument that is not a non-negative number,      *)
(* raise and leave offset and limit as they were; Offset and Limit with a   *)
(* non-negative number set their own property.  So offset and limit, once   *)
(* set, are never negative.                                                 *)
C30_Step ==
  /\ qCall'.op = "Range" =>
       LET start == qCall'.args[1]
           end   == qCall'.args[2]
       IN  IF IsNonNegative(start) /\ IsNumber(end) /\ start.n < end.n
           THEN /\ ~Raised(qCall'.err)
                /\ q'.offset = Def(start.n) /\ q'.limit = Def(end.n - start.n)
           ELSE Raised(qCall'.err) /\ q' = q
  /\ qCall'.op = "Offset" =>
       IF IsNonNegative(qCall'.args[1])
       THEN ~Raised(qCall'.err) /\ q'.offset = Def(qCall'.args[1].n) /\ q'.limit = q.limit
       ELSE Raised(qCall'.err) /\ q' = q
  /\ qCall'.op = "Limit" =>
       IF IsNonNegative(qCall'.args[1])
       THEN ~Raised(qCall'.err) /\ q'.limit = Def(qCall'.args[1].n) /\ q'.offset = q.offset
       ELSE Raised(qCall'.err) /\ q' = q

C30_Paging ==
  /\ [][C30_Step]_vars
  /\ [](/\ IsDef(q.offset) => q.offset[1] >= 0
        /\ IsDef(q.limit) => q.limit[1] >= 0)

(* Range(2, 5) has returned: offset 2, limit 3 *)
C30_Witness ==
  /\ qCall.op = "Range" /\ qCall.args = <<JsNumber(2), JsNumber(5)>>
  /\ ~Raised(qCall.err)
  /\ q.offset = Def(2) /\ q.limit = Def(3)

(* the cursor a call with these values and this flag records *)
CursorOf(values, before) ==
  Def([values |-> [i \in 1..Len(values) |-> wrapValue(values[i])], before |-> before])

(* nothing of the query but its cursors differs *)
OnlyCursorsDiffer(a, b) ==
  a.from = b.from /\ a.where = b.where /\ a.offset = b.offset /\ a.limit = b.limit

(* C31: StartAt and StartAfter replace the start cursor by the wrapped      *)
(* values of the call in argument order, with before true for StartAt and   *)
(* false for StartAfter, and leave the end cursor alone; EndBefore and      *)
(* EndAt replace the end cursor, with before true for EndBefore and false   *)
(* for EndAt, and leave the start cursor alone.  No call raises or changes  *)
(* anything else, so each boundary holds what the last call on it recorded. *)
C31_Cursors ==
  [][ qCall'.op \in {"StartAt", "StartAfter", "EndBefore", "EndAt"} =>
        /\ ~Raised(qCall'.err) /\ OnlyCursorsDiffer(q, q')
        /\ qCall'.op = "StartAt" =>
             q'.startAt = CursorOf(qCall'.args, TRUE) /\ q'.endAt = q.endAt
        /\ qCall'.op = "StartAfter" =>
             q'.startAt = CursorOf(qCall'.args, FALSE) /\ q'.endAt = q.endAt
        /\ qCall'.op = "EndBefore" =>
             q'.endAt = CursorOf(qCall'.args, TRUE) /\ q'.startAt = q.startAt
        /\ qCall'.op = "EndAt" =>
             q'.endAt = CursorOf(qCall'.args, FALSE) /\ q'.startAt = q.startAt ]_vars

(* StartAfter with two values has recorded the start cursor while an end    *)
(* cursor recorded by EndBefore is in place                                 *)
C31_Witness ==
  /\ qCall.op = "StartAfter" /\ Len(qCall.args) = 2
  /\ IsDef(q.startAt) /\ ~q.startAt[1].before /\ Len(q.startAt[1].values) = 2
  /\ q.startAt[1].values[1] # q.startAt[1].values[2]
  /\ IsDef(q.endAt) /\ q.endAt[1].before

(* the ids of the selectors of the query, in order *)
FromIds(query) ==
  LET from == IF IsDef(query.from) THEN query.from[1] ELSE <<>>
  IN  [i \in 1..Len(from) |-> from[i].collectionId]

Distinct(ids) == \A i, j \in 1..Len(ids) : i # j => ids[i] # ids[j]

Elements(ids) == {ids[i] : i \in 1..Len(ids)}

(* the ids named by the argument of the last call *)
Named(call) ==
  IF call.args[1].isArray THEN Elements(call.args[1].a) ELSE {call.args[1].s}

IsPrefix(a, b) == Len(a) <= Len(b) /\ SubSeq(b, 1, Len(a)) = a

(* C32 (steps): addCollections and addCollectionGroups keep the selectors   *)
(* present, in their order, and append one selector for each named id that  *)
(* was absent; removeCollections keeps, in order, exactly the selectors     *)
(* whose id is not named; getCollections returns the ids in order and       *)
(* changes nothing.                                                         *)
C32_Step ==
  /\ qCall'.op \in {"addCollections", "addCollectionGroups"} =>
       /\ IsPrefix(q.from[1], q'.from[1])
       /\ Elements(FromIds(q')) = Elements(FromIds(q)) \cup Named(qCall')
       /\ Len(q'.from[1]) = Cardinality(Elements(FromIds(q')))
       /\ qCall'.op = "addCollectionGroups" =>
            \A i \in (Len(q.from[1]) + 1)..Len(q'.from[1]) : q'.from[1][i].allDescendants
       /\ Named(qCall') \subseteq Elements(FromIds(q)) => q' = q
  /\ qCall'.op = "removeCollections" =>
       LET Stays(selector) == selector.collectionId \notin Named(qCall')
       IN  q'.from = Def(SelectSeq(q.from[1], Stays))
  /\ qCall'.op = "getCollections" =>
       qCall'.ret = Def(FromIds(q)) /\ q' = q

(* C32: every step is as above, and the ids of a query built on one         *)
(* collection stay pairwise distinct.                                       *)
C32_Collections == [][C32_Step]_vars /\ []Distinct(FromIds(q))

(* addCollections(['c', 'a']) or addCollections('a') has returned on a      *)
(* query that held a and b already: nothing changed                         *)
C32_Witness ==
  /\ qCall.op = "addCollections"
  /\ Named(qCall) \subseteq {<<"a">>, <<"c">>} /\ <<"a">> \in Named(qCall)
  /\ FromIds(q) = << <<"c">>, <<"a">>, <<"b">> >>

(* C36 as stated: a Where call that raises an Invalid Operator error leaves *)
(* the filter root as it was before the call, whether the root was absent,  *)
(* a single filter or a composite.                                          *)
C36_RaisingWhereKeepsRoot ==
  [][ /\ qCall'.op = "Where" /\ Raised(qCall'.err)
      /\ StartsWith(qCall'.err[1].msg, MsgInvalidOperator)
      => q'.where = q.where ]_vars

(* Reading a field path back: segments stand between backticks and are    *)
(* separated by dots; inside a segment a backslash makes the next character *)
(* literal and a bare backtick closes the segment. Undefined when the text  *)
(* is not of that form.                                                     *)
RECURSIVE ReadSegments(_, _, _, _)
ReadSegments(s, at, cur, segs) ==
  CASE at = "open" ->
         IF s # <<>> /\ Head(s) = BT THEN ReadSegments(Tail(s), "inside", <<>>, segs)
         ELSE Undefined
    [] at = "inside" ->
         IF s = <<>> THEN Undefined
         ELSE IF Head(s) = "\\" /\ Len(s) >= 2
              THEN ReadSegments(Tail(Tail(s)), "inside", Append(cur, s[2]), segs)
         ELSE IF Head(s) = BT THEN ReadSegments(Tail(s), "closed", <<>>, Append(segs, cur))
         ELSE ReadSegments(Tail(s), "inside", Append(cur, Head(s)), segs)
    [] at = "closed" ->
         IF s = <<>> THEN Def(segs)
         ELSE IF Head(s) = "." THEN ReadSegments(Tail(s), "open", <<>>, segs)
         ELSE Undefined

SegmentsOf(fieldPath) == ReadSegments(fieldPath, "open", <<>>, <<>>)

(* C35 as stated: the segments of the path handed to fieldRef_ can be read  *)
(* back from the field path it produced, however many quote characters a    *)
(* segment holds.                                                           *)
C35_FieldRefRoundTrips ==
  qCall.op = "fieldRef_" =>
    SegmentsOf(qCall.ret[1].fieldPath) = Def(SplitOn(qCall.args[1], ".", <<>>))

----------------------------------------------------------------------------
(* Properties of AggregateQuery (SpecAggregate) *)

C33_Step ==
  /\ aqCall'.op \in {"count", "sum", "avg"} =>
       /\ ~Raised(aqCall'.err) /\ aqCall'.callbacks = 0
       /\ Len(aq'.aggregations) = Len(aq.aggregations) + 1
       /\ SubSeq(aq'.aggregations, 1, Len(aq.aggregations)) = aq.aggregations
  /\ aqCall'.op = "get" =>
       /\ aq' = aq
       /\ Len(aq.aggregations) \notin 1..5 =>
            Raised(aqCall'.err) /\ aqCall'.err[1].at = "get" /\ aqCall'.callbacks = 0
       /\ Len(aq.aggregations) \in 1..5 =>
            /\ aqCall'.callbacks = 1
            /\ aqCall'.err = aqCall'.answer[1].err
            /\ aqCall'.ret = aqCall'.answer[1].ret

(* C33: count, sum and avg each append one aggregation; get() leaves the    *)
(* aggregations alone, raises without invoking the callback when there are  *)
(* none or more than 5, and otherwise invokes the callback once and ends as *)
(* the callback did.                                                        *)
C33_Aggregations == [][C33_Step]_vars

(* get() has raised on six aggregations without invoking the callback *)
C33_Witness ==
  /\ aqCall.op = "get" /\ Len(aq.aggregations) = 6
  /\ Raised(aqCall.err) /\ aqCall.callbacks = 0

----------------------------------------------------------------------------
(* Properties of the ValueCodec (SpecCodec) *)

IsDecimal(s) ==
  LET digits == IF s # <<>> /\ s[1] = "-" THEN Tail(s) ELSE s
  IN  digits # <<>> /\ \A i \in 1..Len(digits) : \E d \in 0..9 : digits[i] = Digit(d)

(* every integer-valued number that v, its arrays or its maps hold is, at   *)
(* the same place inside w, an integerValue holding a decimal string; the   *)
(* two numbers of a geopoint-shaped object ride inside its geoPointValue    *)
RECURSIVE IntegersAsDecimal(_, _)
IntegersAsDecimal(v, w) ==
  CASE v.t = "number" /\ v.frac = <<>> ->
         DOMAIN w = {"integerValue"} /\ IsDecimal(w.integerValue)
    [] v.t = "array" ->
         /\ DOMAIN w = {"arrayValue"}
         /\ Len(w.arrayValue.values) = Len(v.items)
         /\ \A i \in 1..Len(v.items) : IntegersAsDecimal(v.items[i], w.arrayValue.values[i])
    [] v.t = "object" /\ "mapValue" \in DOMAIN w ->
         /\ Len(w.mapValue.values) = Len(v.values)
         /\ \A i \in 1..Len(v.values) : IntegersAsDecimal(v.values[i], w.mapValue.values[i])
    [] OTHER -> TRUE

(* a and b are deep-equal: the same kind of value, arrays with deep-equal  *)
(* elements in the same order, objects with the same keys (in any order)   *)
(* and deep-equal values under each key                                    *)
RECURSIVE DeepEquals(_, _)
DeepEquals(a, b) ==
  IF a.t # b.t THEN FALSE
  ELSE CASE a.t = "array" ->
              /\ Len(a.items) = Len(b.items)
              /\ \A i \in 1..Len(a.items) : DeepEquals(a.items[i], b.items[i])
         [] a.t = "object" ->
              /\ Len(a.keys) = Len(b.keys)
              /\ \A i \in 1..Len(a.keys) :
                   \E j \in 1..Len(b.keys) :
                     b.keys[j] = a.keys[i] /\ DeepEquals(a.values[i], b.values[j])
         [] OTHER -> a = b

(* the value is one the claim names: null, a boolean, an integer, a string, *)
(* or a map or array of such values                                         *)
RECURSIVE Named34(_)
Named34(v) ==
  CASE v.t \in {"null", "boolean", "string"} -> TRUE
    [] v.t = "number" -> v.frac = <<>>
    [] v.t = "array"  -> \A i \in 1..Len(v.items) : Named34(v.items[i])
    [] v.t = "object" -> \A i \in 1..Len(v.values) : Named34(v.values[i])
    [] OTHER -> FALSE

----------------------------------------------------------------------------
(* Properties of isRetryableError (SpecCls) *)

KwAbort == <<"a", "b", "o", "r", "t">>

(* msg contains the lower-case keyword kw, whatever the case of its letters *)
ContainsIgnoringCase(msg, kw) ==
  \E i \in 0..(Len(msg) - Len(kw)) :
    \A j \in 1..Len(kw) : LowerCase(msg[i + j]) = <<kw[j]>>

(* C10 as stated: an error is retryable exactly when its message contains, *)
(* case-insensitively, abort, conflict, contention or deadline exceeded.   *)
C10_KeywordsAsStated ==
  IsDef(retryable)
    => (retryable[1] <=>
          \E kw \in {KwAbort, KwConflict, KwContention, KwDeadlineExceeded} :
            ContainsIgnoringCase(errMsg, kw))

(* C10, amended: an error is retryable exactly when its message contains,   *)
(* case-insensitively, aborted, conflict, contention or deadline exceeded.  *)
C10_Keywords ==
  IsDef(retryable)
    => (retryable[1] <=>
          \E kw \in {KwAborted, KwConflict, KwContention, KwDeadlineExceeded} :
            ContainsIgnoringCase(errMsg, kw))

(* a message with "ABORTED" in upper case was classified retryable *)
C10_Witness ==
  /\ retryable = Def(TRUE)
  /\ errMsg = <<"A", "B", "O", "R", "T", "E", "D", ":", " ">>

====
